---- MODULE Spec2Model ----
(***************************************************************************)
(* Model of the orchestration runtime of dncolomer/Agent:                  *)
(*   - the per-agent task scheduler and run loop        (src/agent.py)     *)
(*   - the agent lifecycle start/stop    (src/agent_toolkit/agents/base.py)*)
(*   - the event bus                     (src/agent_toolkit/events.py)     *)
(*                                                                         *)
(* Spec    : one agent (agent_id) run from construction to the end of its  *)
(*           run loop.  Tasks are owned by their agent and no message      *)
(*           handler writes a task, so the other agents of the manifest    *)
(*           appear only as receivers of the agent's messages.             *)
(* SpecBus : the event bus under arbitrary publishers.                     *)
(* SpecDelivery : EventBus.process_events delivering to subscribers.       *)
(* SpecTracker  : ResourceTracker under arbitrary callers. (orchestrator.py)*)
(* SpecOrch     : Orchestrator.run with its handlers, shutdown, the        *)
(*                tracker and the agents seen through start()/stop().      *)
(*                                                                         *)
(* Strings are modelled as sequences of tokens: the Python id              *)
(* "operator-1-t2" is <<"operator-1", "t2">>, so that                      *)
(* id.startswith(f"{agent_id}-") is a test on the first token and          *)
(* f"{agent_id}-{id}" prepends a token.                                    *)
(***************************************************************************)
EXTENDS Integers, Sequences, FiniteSets, TLC

VARIABLES
    pc,           \* position of the agent in BaseAgent.start / Agent._run
    is_running,   \* BaseAgent.is_running
    tasks,        \* Agent.tasks : sequence of Task records
    current,      \* index of the task _execute_task is suspended in, 0 if none
    now,          \* time.time(), seconds
    plan,         \* the plan data returned by the generation collaborator
    returned_via, \* per task: the scheduler path that returned it ("" = never)
    times_returned, \* per task: how often the scheduler returned it
    history,      \* EventBus.history
    queue,        \* EventBus.queue
    log,          \* every event ever passed to EventBus.publish, in order
    subscribers,  \* EventBus.subscribers : event type -> set of callbacks
    proc,         \* position of the EventBus.process_events task
    calls,        \* every callback invocation of process_events, in order
    tracker,      \* ResourceTracker fields and its pending _check_limits tasks
    orch,         \* position of Orchestrator.run
    agents,       \* Orchestrator.agents seen through BaseAgent.start/stop
    sd,           \* the shutdown() invocations, by calling task
    config,       \* the configuration the orchestrator was constructed with
    manifest,     \* the manifest AgentFactory.create_agents built
    created,      \* the agents AgentFactory.create_agents returned
    ret,          \* the value the last EventBus.get_history call returned
    life          \* one BaseAgent under any callers of start() and stop()

vars == <<pc, is_running, tasks, current, now, plan, returned_via,
          times_returned, history, queue, log, subscribers, proc, calls,
          tracker, orch, agents, sd, config, manifest, created, ret, life>>

\* the state of the factory and of the callers of get_history, which the
\* steps of the agents, of the bus, of the tracker and of run() leave alone
restVars == <<config, manifest, created, ret, life>>

\* the state of the orchestrator side, which one agent's run leaves alone
sysVars == <<subscribers, proc, calls, tracker, orch, agents, sd, restVars>>

\* the state of one agent's run, which the orchestrator side leaves alone
agentVars == <<pc, is_running, tasks, current, now, plan, returned_via,
               times_returned>>

-----------------------------------------------------------------------------
(* Bounds of the model *)

\* largest number of tasks in a plan
MaxTasks == 2

\* the clock stops here; runs of MaxTasks tasks end well before it
MaxTime == 400

\* EventBus._MAX_HISTORY, 10_000 in the source (events.py:72); the model
\* keeps the trimming code and scales the capacity down
MAX_HISTORY == 3

\* number of events published in SpecBus
MaxPublished == 6

-----------------------------------------------------------------------------
(* Program constants *)

max_dependency_wait_time == 60

external_dependency_timeout == 30

\* asyncio.sleep(2) of the run loop
PollDelay == 2

\* Python's None in a timestamp field
None == -1

PENDING == "pending"

IN_PROGRESS == "in_progress"

COMPLETED == "completed"

FAILED == "failed"

BLOCKED == "blocked"

SKIPPED == "skipped"

TaskStatus == {PENDING, IN_PROGRESS, COMPLETED, FAILED, BLOCKED, SKIPPED}

AGENT_TASK_START == "agent.task.start"

AGENT_TASK_COMPLETED == "agent.task.completed"

AGENT_TASK_FAILED == "agent.task.failed"

AGENT_COMPLETED == "agent.completed"

AGENT_MESSAGE == "agent.message"

SYSTEM_START == "system.start"

SYSTEM_SHUTDOWN == "system.shutdown"

CONFIG_VALIDATED == "config.validated"

RESOURCE_LIMIT_WARNING == "resource.limit.warning"

RESOURCE_LIMIT_EXCEEDED == "resource.limit.exceeded"

-----------------------------------------------------------------------------
(* The run: one agent of a two-agent manifest *)

agent_id == "operator-1"

run_id == "run-1"

agent_manifest == << [agent_id |-> "builder-1", type |-> "builder"],
                     [agent_id |-> "operator-1", type |-> "operator"] >>

Peers == { agent_manifest[k].agent_id : k \in 1..Len(agent_manifest) } \ {agent_id}

\* dep_id.startswith(f"{self.agent_id}-")
StartsWithAgentId(id) == Len(id) >= 2 /\ id[1] = agent_id

\* f"{self.agent_id}-{id}" unless the id already has the prefix
EnsurePrefixed(id) == IF StartsWithAgentId(id) THEN id ELSE <<agent_id>> \o id

-----------------------------------------------------------------------------
(* Plans the generation collaborator may return (untrusted text) *)

TaskNames == <<"t1", "t2", "t3", "t4">>

\* the collaborator writes ids with or without the agent prefix
RawTaskId(k) == IF k % 2 = 1 THEN <<TaskNames[k]>> ELSE <<agent_id, TaskNames[k]>>

\* an id of this agent that no task of the plan has
MissingId == <<agent_id, "zz">>

\* a task of another agent of the manifest
ExternalId == <<"builder-1", "b1">>

RawLocalIds(n) == { RawTaskId(j) : j \in 1..n } \cup {MissingId}

RawDepLists(n) ==
    {<<>>} \cup { <<d>> : d \in RawLocalIds(n) \cup {ExternalId} }
           \cup { <<d, ExternalId>> : d \in RawLocalIds(n) }

PlansOf(n) ==
    { [k \in 1..n |-> [id |-> RawTaskId(k), dependencies |-> f[k]]] :
        f \in [1..n -> RawDepLists(n)] }

Plans == UNION { PlansOf(n) : n \in 0..MaxTasks }

\* a dependency as the plan declares it belongs to another agent
IsOtherAgents(raw) == Len(raw) >= 2 /\ raw[1] \in Peers

-----------------------------------------------------------------------------
(* Events and EventBus.publish *)

NoPayload == [action |-> "", from |-> "", to |-> "", task_id |-> <<>>,
              status |-> "", counts |-> <<>>, limit_type |-> "",
              reason |-> <<>>]

\* Event: timestamp is the time of construction
Event(type, agent, payload, t) ==
    [type |-> type, agent_id |-> agent, run_id |-> run_id,
     timestamp |-> t, payload |-> payload]

\* (variant) the trim drops the newest entry, history.pop(), not the oldest
AppendHistory_PopNewest(h, e) ==
    LET h1 == Append(h, e)
    IN  IF Len(h1) > MAX_HISTORY THEN SubSeq(h1, 1, Len(h1) - 1) ELSE h1

\* history.append(event); if len(history) > _MAX_HISTORY: history.pop(0)
AppendHistory(h, e) ==
    LET h1 == Append(h, e)
    IN  IF Len(h1) > MAX_HISTORY THEN Tail(h1) ELSE h1

\* (variant) the event is put at the head of the queue
publish_AtHead(b, e) ==
    [history |-> AppendHistory(b.history, e),
     queue   |-> <<e>> \o b.queue,
     log     |-> Append(b.log, e)]

\* EventBus.publish applied to the bus state b = [history, queue, log]
publish(b, e) ==
    [history |-> AppendHistory(b.history, e),
     queue   |-> Append(b.queue, e),
     log     |-> Append(b.log, e)]

RECURSIVE publishAll(_, _)
publishAll(b, es) ==
    IF es = <<>> THEN b ELSE publishAll(publish(b, Head(es)), Tail(es))

Bus == [history |-> history, queue |-> queue, log |-> log]

SetBus(b) ==
    /\ history' = b.history
    /\ queue' = b.queue
    /\ log' = b.log

\* BaseAgent.send_message + EventBus.send_message: the event carries no
\* agent_id, the sender is payload["from"]
MessageTo(to_agent, payload, t) ==
    Event(AGENT_MESSAGE, "",
          [payload EXCEPT !.from = agent_id, !.to = to_agent], t)

\* one message per manifest entry other than this agent, in manifest order
RECURSIVE MessagesToPeers(_, _, _)
MessagesToPeers(k, payload, t) ==
    IF k > Len(agent_manifest) THEN <<>>
    ELSE IF agent_manifest[k].agent_id # agent_id
         THEN <<MessageTo(agent_manifest[k].agent_id, payload, t)>>
                 \o MessagesToPeers(k + 1, payload, t)
         ELSE MessagesToPeers(k + 1, payload, t)

\* Agent._report_progress(task): the events it publishes
report_progress(task, t) ==
    IF Len(agent_manifest) = 0 THEN <<>>
    ELSE << Event(IF task.status = COMPLETED THEN AGENT_TASK_COMPLETED
                                             ELSE AGENT_TASK_FAILED,
                  agent_id,
                  [NoPayload EXCEPT !.task_id = task.id, !.status = task.status],
                  t) >>
         \o MessagesToPeers(1, [NoPayload EXCEPT !.action = "task_update",
                                                 !.task_id = task.id,
                                                 !.status = task.status], t)

-----------------------------------------------------------------------------
(* Task and Agent._plan_tasks *)

\* Task.__init__
Task(id, dependencies) ==
    [id |-> id, dependencies |-> dependencies, status |-> PENDING,
     result |-> "None", error |-> "None", created_at |-> now,
     started_at |-> None, completed_at |-> None,
     dependency_wait_start |-> None]

\* the dependencies loop of _plan_tasks: every id without the agent prefix
\* gets it
PrefixDependencies(deps) == [k \in 1..Len(deps) |-> EnsurePrefixed(deps[k])]

\* the Task objects _plan_tasks appends for the first m entries of the plan
PlannedTasks(p, m) ==
    [k \in 1..m |-> Task(EnsurePrefixed(p[k].id),
                         PrefixDependencies(p[k].dependencies))]

-----------------------------------------------------------------------------
(* Agent._get_next_executable_task *)

\* next((t for t in self.tasks if t.id == dep_id), None): index, 0 for None
RECURSIVE FindTask(_, _, _)
FindTask(ts, dep_id, k) ==
    IF k > Len(ts) THEN 0
    ELSE IF ts[k].id = dep_id THEN k
    ELSE FindTask(ts, dep_id, k + 1)

\* (variant) a dependency on an id no task has counts as met
DependencyUnmet_MissingIsMet(ts, dep_id) ==
    LET dep_task == FindTask(ts, dep_id, 1)
    IN  dep_task # 0 /\ ts[dep_task].status # COMPLETED

\* (variant) a dependency counts as met once its task is terminal
DependencyUnmet_FailedIsMet(ts, dep_id) ==
    LET dep_task == FindTask(ts, dep_id, 1)
    IN  dep_task = 0 \/ ts[dep_task].status \notin {COMPLETED, FAILED}

\* not dep_task or dep_task.status != TaskStatus.COMPLETED
DependencyUnmet(ts, dep_id) ==
    LET dep_task == FindTask(ts, dep_id, 1)
    IN  dep_task = 0 \/ ts[dep_task].status # COMPLETED

\* the loop over task.dependencies: stops at the first unmet internal
\* dependency, collects the external ones seen so far
RECURSIVE ScanDependencies(_, _, _, _)
ScanDependencies(ts, deps, k, ext) ==
    IF k > Len(deps)
    THEN [dependencies_met |-> TRUE, external_dependencies |-> ext]
    ELSE IF StartsWithAgentId(deps[k])
         THEN IF DependencyUnmet(ts, deps[k])
              THEN [dependencies_met |-> FALSE, external_dependencies |-> ext]
              ELSE ScanDependencies(ts, deps, k + 1, ext)
         ELSE ScanDependencies(ts, deps, k + 1, Append(ext, deps[k]))

\* (variant) the wait has to exceed the limit
WaitExpired_Strict(current_time, wait_start, limit) ==
    current_time - wait_start > limit

\* the elapsed wait reached the limit
WaitExpired(current_time, wait_start, limit) == current_time - wait_start >= limit

\* (variant) the deadlock check restarts the wait of every PENDING task on
\* each pass, so no wait ever reaches the threshold
DeadlockCheck_TimerRestarts(ts, k, current_time) ==
    [tasks |-> [j \in 1..Len(ts) |->
                   IF ts[j].status = PENDING
                   THEN [ts[j] EXCEPT !.dependency_wait_start = current_time]
                   ELSE ts[j]],
     task |-> 0, path |-> "none"]

\* the deadlock check after the loop: every PENDING task without a wait
\* start gets one, the first whose wait reached max_dependency_wait_time
\* loses all its dependencies and is returned
RECURSIVE DeadlockCheck(_, _, _)
DeadlockCheck(ts, k, current_time) ==
    IF k > Len(ts) THEN [tasks |-> ts, task |-> 0, path |-> "none"]
    ELSE IF ts[k].status # PENDING THEN DeadlockCheck(ts, k + 1, current_time)
    ELSE IF ts[k].dependency_wait_start = None
         THEN DeadlockCheck([ts EXCEPT ![k].dependency_wait_start = current_time],
                            k + 1, current_time)
    ELSE IF WaitExpired(current_time, ts[k].dependency_wait_start,
                        max_dependency_wait_time)
         THEN [tasks |-> [ts EXCEPT ![k].dependencies = <<>>],
               task |-> k, path |-> "deadlock"]
    ELSE DeadlockCheck(ts, k + 1, current_time)

\* (variant) the main loop also takes FAILED tasks up again
Examined_RetryFailed(task) == task.status \in {PENDING, FAILED}

\* a task the main loop looks at: only PENDING ones
Examined(task) == task.status = PENDING

\* the main loop over self.tasks
RECURSIVE ScanTasks(_, _, _)
ScanTasks(ts, k, current_time) ==
    IF k > Len(ts) THEN DeadlockCheck(ts, 1, current_time)
    ELSE IF ~Examined(ts[k]) THEN ScanTasks(ts, k + 1, current_time)
    ELSE
      LET s == ScanDependencies(ts, ts[k].dependencies, 1, <<>>)
          started == IF ts[k].dependency_wait_start = None
                     THEN [ts EXCEPT ![k].dependency_wait_start = current_time]
                     ELSE ts
      IN  IF s.dependencies_met /\ s.external_dependencies # <<>>
          THEN IF WaitExpired(current_time, started[k].dependency_wait_start,
                              external_dependency_timeout)
               THEN [tasks |-> [started EXCEPT ![k].dependencies =
                                   SelectSeq(@, StartsWithAgentId)],
                     task |-> k, path |-> "external_timeout"]
               ELSE ScanTasks(started, k + 1, current_time)
          ELSE IF s.dependencies_met
               THEN [tasks |-> ts, task |-> k, path |-> "ready"]
               ELSE ScanTasks(ts, k + 1, current_time)

\* result: the task list after the call, the index of the returned task
\* (0 for None) and the return statement that produced it
get_next_executable_task(ts, current_time) == ScanTasks(ts, 1, current_time)

\* (variant) any(...) in the place of all(...)
AllTerminal_Any(ts) ==
    \E k \in 1..Len(ts) : ts[k].status \in {COMPLETED, FAILED, SKIPPED}

\* all(task.status in [COMPLETED, FAILED, SKIPPED] for task in self.tasks)
AllTerminal(ts) ==
    \A k \in 1..Len(ts) : ts[k].status \in {COMPLETED, FAILED, SKIPPED}

CountStatus(ts, st) == Cardinality({ k \in 1..Len(ts) : ts[k].status = st })

-----------------------------------------------------------------------------
(* The agent: BaseAgent.start / Agent._run / BaseAgent.stop                *)
(*                                                                         *)
(* pc: "idle"      constructed, start() not called                         *)
(*     "plan"      _plan_tasks awaits the generation collaborator          *)
(*     "loop"      at the head of `while self.is_running` (no suspension)  *)
(*     "exec"      _execute_task awaits the executor of tasks[current]     *)
(*     "sleep"     asyncio.sleep(2)                                        *)
(*     "done"      _run published AGENT_COMPLETED and returned             *)
(*     "returned"  _run returned after a failed planning                   *)
(*     "error"     _run raised (no API key)                                *)
(*     "cancelled" stop() cancelled the run loop                           *)
(***************************************************************************)

\* how long the executor of a task may take, seconds
Durations == {1, 61}

\* what _execute_builder_task / _execute_operator_task does:
\*   "success"   every operation succeeded, task.result stored, True
\*   "op_failed" a file or command operation failed, task.result stored, False
\*   "caught"    the collaborator raised or its text was unusable: the
\*               executor's own `except Exception` returns False
\* Both executors catch Exception themselves, so nothing but a cancellation
\* leaves them by raising.
Outcomes == {"success", "op_failed", "caught"}

\* start(): is_running = True, then _run up to its first suspension:
\* _announce_presence, _initialize_llm (raises without an API key, and
\* start()'s finally resets is_running), then the call of the collaborator
Start ==
    /\ pc = "idle"
    /\ ~is_running
    /\ \E api_key \in BOOLEAN :
         /\ pc' = IF api_key THEN "plan" ELSE "error"
         /\ is_running' = api_key
    /\ SetBus(publishAll(Bus, MessagesToPeers(1,
                 [NoPayload EXCEPT !.action = "announce"], now)))
    /\ UNCHANGED <<tasks, current, now, plan, returned_via, times_returned>>
    /\ UNCHANGED sysVars

\* _plan_tasks succeeds: the tasks are created, the plan is published and
\* broadcast, the run loop is entered
PlanTasks ==
    /\ pc = "plan"
    /\ \E p \in Plans :
         /\ plan' = p
         /\ tasks' = PlannedTasks(p, Len(p))
         /\ returned_via' = [k \in 1..Len(p) |-> ""]
         /\ times_returned' = [k \in 1..Len(p) |-> 0]
    /\ SetBus(publishAll(Bus,
          << Event(AGENT_TASK_START, agent_id,
                   [NoPayload EXCEPT !.action = "plan_created"], now) >>
          \o MessagesToPeers(1, [NoPayload EXCEPT !.action = "plan_update"], now)))
    /\ pc' = "loop"
    /\ UNCHANGED <<is_running, current, now>>
    /\ UNCHANGED sysVars

\* _plan_tasks fails: the collaborator returned no JSON (m = 0) or entry
\* m + 1 of the plan is malformed; the tasks before it stay appended,
\* _plan_tasks returns False and _run returns
PlanTasksFails ==
    /\ pc = "plan"
    /\ \E p \in Plans : \E m \in 0..Len(p) :
         /\ plan' = p
         /\ tasks' = PlannedTasks(p, m)
         /\ returned_via' = [k \in 1..m |-> ""]
         /\ times_returned' = [k \in 1..m |-> 0]
    /\ pc' = "returned"
    /\ is_running' = FALSE
    /\ UNCHANGED <<current, now, history, queue, log>>
    /\ UNCHANGED sysVars

\* Task fields written by _execute_task before the executor is awaited
BeginTask(task, t) == [task EXCEPT !.status = IN_PROGRESS, !.started_at = t]

\* loop iteration, a task is returned: _execute_task marks it IN_PROGRESS,
\* reports it and awaits the executor
ScheduleTask ==
    /\ pc = "loop"
    /\ is_running
    /\ LET r == get_next_executable_task(tasks, now)
       IN  /\ r.task # 0
           /\ tasks' = [r.tasks EXCEPT ![r.task] = BeginTask(@, now)]
           /\ current' = r.task
           /\ returned_via' = [returned_via EXCEPT ![r.task] = r.path]
           /\ times_returned' = [times_returned EXCEPT ![r.task] = @ + 1]
           /\ SetBus(publishAll(Bus, report_progress(tasks'[r.task], now)))
    /\ pc' = "exec"
    /\ UNCHANGED <<is_running, now, plan>>
    /\ UNCHANGED sysVars

\* loop iteration, no task is returned and some task is not terminal:
\* asyncio.sleep(2)
WaitForDependencies ==
    /\ pc = "loop"
    /\ is_running
    /\ LET r == get_next_executable_task(tasks, now)
       IN  /\ r.task = 0
           /\ ~AllTerminal(r.tasks)
           /\ tasks' = r.tasks
    /\ pc' = "sleep"
    /\ UNCHANGED <<is_running, current, now, plan, returned_via,
                   times_returned, history, queue, log>>
    /\ UNCHANGED sysVars

\* loop iteration, no task is returned and all are terminal: break, publish
\* AGENT_COMPLETED, _run returns and start() resets is_running
CompleteRun ==
    /\ pc = "loop"
    /\ is_running
    /\ LET r == get_next_executable_task(tasks, now)
       IN  /\ r.task = 0
           /\ AllTerminal(r.tasks)
           /\ tasks' = r.tasks
    /\ SetBus(publish(Bus,
          Event(AGENT_COMPLETED, agent_id,
                [NoPayload EXCEPT !.counts = << CountStatus(tasks, COMPLETED),
                                                CountStatus(tasks, FAILED),
                                                Len(tasks) >>], now)))
    /\ pc' = "done"
    /\ is_running' = FALSE
    /\ UNCHANGED <<current, now, plan, returned_via, times_returned>>
    /\ UNCHANGED sysVars

\* Task fields written by _execute_task after the executor returned
FinishTask(task, outcome, t) ==
    IF outcome = "success"
    THEN [task EXCEPT !.status = COMPLETED, !.completed_at = t,
                      !.result = "success"]
    ELSE [task EXCEPT !.status = FAILED,
                      !.result = IF outcome = "op_failed" THEN "failure"
                                                          ELSE @]

\* the executor returns after d seconds: _execute_task sets the status,
\* reports it and returns to the loop
ExecuteReturns ==
    /\ pc = "exec"
    /\ \E outcome \in Outcomes : \E d \in Durations :
         /\ now + d <= MaxTime
         /\ now' = now + d
         /\ tasks' = [tasks EXCEPT ![current] = FinishTask(@, outcome, now')]
         /\ SetBus(publishAll(Bus, report_progress(tasks'[current], now')))
    /\ current' = 0
    /\ pc' = "loop"
    /\ UNCHANGED <<is_running, plan, returned_via, times_returned>>
    /\ UNCHANGED sysVars

\* asyncio.sleep(2) returns
SleepReturns ==
    /\ pc = "sleep"
    /\ now + PollDelay <= MaxTime
    /\ now' = now + PollDelay
    /\ pc' = "loop"
    /\ UNCHANGED <<is_running, tasks, current, plan, returned_via,
                   times_returned, history, queue, log>>
    /\ UNCHANGED sysVars

\* (variant) the `except Exception` of _execute_task catches the
\* cancellation: the task is marked FAILED and reported before the run
\* loop ends
Stop_CancellationCaught ==
    /\ is_running
    /\ pc \in {"plan", "exec", "sleep"}
    /\ pc' = "cancelled"
    /\ is_running' = FALSE
    /\ IF pc = "exec"
       THEN /\ tasks' = [tasks EXCEPT ![current] = FinishTask(@, "caught", now)]
            /\ SetBus(publishAll(Bus, report_progress(tasks'[current], now)))
       ELSE UNCHANGED <<tasks, history, queue, log>>
    /\ UNCHANGED <<current, now, plan, returned_via, times_returned>>
    /\ UNCHANGED sysVars

\* stop(): cancels the run loop at the suspension point it is in; the
\* CancelledError passes every `except Exception`
Stop ==
    /\ is_running
    /\ pc \in {"plan", "exec", "sleep"}
    /\ pc' = "cancelled"
    /\ is_running' = FALSE
    /\ UNCHANGED <<tasks, current, now, plan, returned_via, times_returned,
                   history, queue, log>>
    /\ UNCHANGED sysVars

AgentStep ==
    \/ Start
    \/ PlanTasks
    \/ PlanTasksFails
    \/ ScheduleTask
    \/ WaitForDependencies
    \/ CompleteRun
    \/ ExecuteReturns
    \/ SleepReturns

\* no event: process_events holds none between two deliveries
NoEvent == Event("", "", NoPayload, None)

\* (variant) the exceeded events are handled like the warnings: logged only
SubscribersInit_ExceededOnlyLogged ==
    [type \in {RESOURCE_LIMIT_WARNING, RESOURCE_LIMIT_EXCEEDED, SYSTEM_SHUTDOWN}
        |-> IF type = SYSTEM_SHUTDOWN THEN {"_handle_shutdown"}
            ELSE {"_handle_resource_warning"}]

\* Orchestrator._setup_event_handlers: the subscriptions made at construction
SubscribersInit ==
    [type \in {RESOURCE_LIMIT_WARNING, RESOURCE_LIMIT_EXCEEDED, SYSTEM_SHUTDOWN}
        |-> IF type = RESOURCE_LIMIT_WARNING THEN {"_handle_resource_warning"}
            ELSE IF type = RESOURCE_LIMIT_EXCEEDED
                 THEN {"_handle_resource_exceeded"}
                 ELSE {"_handle_shutdown"}]

\* process_events before run() creates its task.  event: the event being
\* delivered; todo: the subscribers of its type not invoked yet; active: the
\* callback being awaited; taken: the timestamps of the events dequeued;
\* waiting: queue.get() found the queue empty and suspended the task
\* size: the size of the subscriber set when the loop over it began
ProcInit ==
    [pc |-> "not_started", event |-> NoEvent, todo |-> {}, active |-> "",
     taken |-> <<>>, waiting |-> TRUE, size |-> 0]

\* ResourceTracker.__init__; pending counts the _check_limits tasks created
\* and not yet run; adds and checks record, per call, the cumulative cost
\* left by add_token_usage and the cost and time seen by _check_limits
TrackerInit ==
    [current_cost_usd |-> 0, cost_warning_sent |-> FALSE,
     time_warning_sent |-> FALSE, start_time |-> 0, pending |-> 0,
     adds |-> <<>>, checks |-> <<>>]

\* Orchestrator.run not yet called
OrchInit == [pc |-> "init", valid |-> "none", result |-> "none"]

\* a shutdown() coroutine that is not running.  next: index of the agent
\* the stop loop is at; stages: the stages this invocation went through;
\* count: invocations started by this caller so far
SdIdle ==
    [pc |-> "idle", reason |-> <<>>, next |-> 1, stages |-> <<>>,
     timeouts |-> {}, errors |-> {}, count |-> 0]

\* shutdown() is called from run() (main task) and from
\* _handle_resource_exceeded (inside the process_events task)
SdCallers == {"run", "handler"}

\* the configuration of the runs of the agent, bus and orchestrator models:
\* one builder and one operator
DefaultConfig ==
    [agents |-> << [type |-> "builder", count |-> 1, goal |-> "goal A"],
                   [type |-> "operator", count |-> None, goal |-> "goal B"] >>]

\* BaseAgent.__init__: is_running = False, task = None (0).  loops: the
\* run loop tasks start() created, each "pending", "cancelling" (cancel()
\* was called on it and it has not run since), "returned", "raised" or
\* "cancelled"; frames: the start() and stop() calls suspended in `await
\* self.task`, each with the loop it awaits; woken: the frames whose loop
\* has ended and that have not resumed yet, in the order they resume;
\* returns: the calls that returned, with is_running as they left it
LifeInit ==
    [is_running |-> FALSE, task |-> 0, loops |-> <<>>, frames |-> {},
     woken |-> <<>>, resumed |-> FALSE, returns |-> <<>>]

\* the state after construction, whatever the configuration
InitState ==
    /\ subscribers = SubscribersInit
    /\ proc = ProcInit
    /\ calls = <<>>
    /\ tracker = TrackerInit
    /\ orch = OrchInit
    /\ agents = <<>>
    /\ sd = [c \in SdCallers |-> SdIdle]
    /\ pc = "idle"
    /\ is_running = FALSE
    /\ tasks = <<>>
    /\ current = 0
    /\ now = 0
    /\ plan = <<>>
    /\ returned_via = <<>>
    /\ times_returned = <<>>
    /\ history = <<>>
    /\ queue = <<>>
    /\ log = <<>>
    /\ manifest = <<>>
    /\ created = <<>>
    /\ ret = <<>>
    /\ life = LifeInit

Init == InitState /\ config = DefaultConfig

Next ==
    \/ AgentStep
    \/ Stop

Spec == Init /\ [][Next]_vars

\* the scheduling the event loop guarantees: a runnable coroutine runs, a
\* sleep ends, an awaited call returns; nobody has to call stop()
FairSpec == Spec /\ WF_vars(AgentStep)

TypeOK ==
    /\ pc \in {"idle", "plan", "loop", "exec", "sleep", "done", "returned",
               "error", "cancelled"}
    /\ is_running \in BOOLEAN
    /\ now \in 0..MaxTime
    /\ current \in 0..Len(tasks)
    /\ \A k \in 1..Len(tasks) : tasks[k].status \in TaskStatus

-----------------------------------------------------------------------------
(* The event bus under arbitrary publishers *)

BusEventTypes == {SYSTEM_START, AGENT_TASK_COMPLETED, AGENT_MESSAGE}

\* some publisher calls EventBus.publish; the clock moves between two calls
BusPublish ==
    /\ Len(log) < MaxPublished
    /\ \E type \in BusEventTypes :
         SetBus(publish(Bus, Event(type, "", NoPayload, now)))
    /\ now' = now + 1
    /\ UNCHANGED <<pc, is_running, tasks, current, plan, returned_via,
                   times_returned>>
    /\ UNCHANGED sysVars

NextBus == BusPublish

SpecBus == Init /\ [][NextBus]_vars

\* largest limit passed to get_history
MaxLimit == 4

\* the limits callers pass: None (the default) and the integers from 0 on
Limits == {None} \cup (0..MaxLimit)

\* the Python slice s[start:] of a list, start of either sign: a negative
\* start counts from the end and is clamped at the head of the list
PySliceFrom(s, start) ==
    LET from == IF start < 0
                THEN (IF Len(s) + start < 0 THEN 0 ELSE Len(s) + start)
                ELSE start
    IN  SubSeq(s, from + 1, Len(s))

\* EventBus.get_history(limit): list(self.history) if limit is None or
\* limit >= len(self.history), else self.history[-limit:]
get_history(h, limit) ==
    IF limit = None \/ limit >= Len(h) THEN h ELSE PySliceFrom(h, 0 - limit)

\* some caller reads the history
GetHistory ==
    /\ \E limit \in Limits :
         ret' = [limit |-> limit, events |-> get_history(history, limit)]
    /\ UNCHANGED <<subscribers, proc, calls, tracker, orch, agents, sd,
                   config, manifest, created, life, history, queue, log>>
    /\ UNCHANGED agentVars

NextHistory ==
    \/ BusPublish
    \/ GetHistory

SpecHistory == Init /\ [][NextHistory]_vars

-----------------------------------------------------------------------------
(* EventBus.subscribe and EventBus.process_events                          *)
(*                                                                         *)
(* proc.pc: "not_started"  the task is not created yet                     *)
(*          "get"          at `await self.queue.get()`                     *)
(*          "deliver"      in the loop over the subscribers of proc.event  *)
(*          "exited"       after the `break`                               *)
(* The subscribers of a type are a Python set: the loop visits them in an  *)
(* order the program does not choose.  Subscriptions are made before the   *)
(* task first runs (Orchestrator.__init__, BaseAgent.__init__), so the set *)
(* does not change while it is iterated.                                   *)

\* number of events published in SpecDelivery
MaxDelivered == 3

\* types the publishers of SpecDelivery use; nothing subscribes to the first
DeliveryEventTypes == {AGENT_TASK_COMPLETED, AGENT_MESSAGE, SYSTEM_SHUTDOWN}

\* callbacks of other components; each may publish, return or raise
GenericCallbacks == {"cb1", "cb2"}

\* self.subscribers[event.type] when event.type in self.subscribers
SubscribersOf(subs, type) == IF type \in DOMAIN subs THEN subs[type] ELSE {}

\* EventBus.subscribe(event_type, callback)
subscribe(subs, type, cb) ==
    [t \in DOMAIN subs \cup {type} |->
        IF t = type THEN SubscribersOf(subs, t) \cup {cb} ELSE subs[t]]

\* events are stamped with their rank among the published events
Stamp == Len(log)

\* an entry of calls: callback cb was started on event e, returned ("end")
\* or raised ("fail"); "process": _process_message was awaited on e
Call(e, cb, kind) ==
    [timestamp |-> e.timestamp, type |-> e.type, callback |-> cb, kind |-> kind]

\* Queue.join() waits for this to be 0: put() counts up, task_done() down
Unfinished == Len(queue) + (IF proc.pc = "deliver" THEN 1 ELSE 0)

\* (variant) an exception of a callback ends the delivery of the event
AfterRaise_SkipsRest(todo) == {}

\* `except Exception` inside the loop over the subscribers: the loop goes on
\* with the subscribers not yet invoked
AfterRaise(todo) == todo

\* (variant) the sentinel ends the loop whatever the queue holds
ExitsAfter_Always(event, q) == event.type = SYSTEM_SHUTDOWN

\* if event.type == SYSTEM_SHUTDOWN: if self.queue.empty(): break
ExitsAfter(event, q) == event.type = SYSTEM_SHUTDOWN /\ q = <<>>

\* shutdown(reason) is entered: it logs and awaits its first pause
SdBegin(s, reason) ==
    [pc |-> "pause1", reason |-> reason, next |-> 1, stages |-> <<"pause1">>,
     timeouts |-> {}, errors |-> {}, count |-> s.count + 1]

\* a component subscribes a callback before delivery starts (cb1 and cb2 to
\* agent messages, cb1 to the sentinel)
Subscribe ==
    /\ proc.pc = "not_started"
    /\ \E type \in {AGENT_MESSAGE, SYSTEM_SHUTDOWN} : \E cb \in GenericCallbacks :
         /\ type = SYSTEM_SHUTDOWN => cb = "cb1"
         /\ cb \notin SubscribersOf(subscribers, type)
         /\ subscribers' = subscribe(subscribers, type, cb)
    /\ UNCHANGED <<proc, calls, tracker, orch, agents, sd, history, queue, log>>
    /\ UNCHANGED <<agentVars, restVars>>

\* asyncio.create_task(self.event_bus.process_events()) and its first step
StartProcessing ==
    /\ proc.pc = "not_started"
    /\ proc' = [proc EXCEPT !.pc = "get"]
    /\ UNCHANGED <<subscribers, calls, tracker, orch, agents, sd, history,
                   queue, log>>
    /\ UNCHANGED <<agentVars, restVars>>

\* some publisher calls EventBus.publish
DeliveryPublish ==
    /\ Len(log) < MaxDelivered
    /\ \E type \in DeliveryEventTypes :
         SetBus(publish(Bus, Event(type, "", NoPayload, Stamp)))
    /\ UNCHANGED sysVars
    /\ UNCHANGED <<agentVars, restVars>>

\* the set the loop iterates over has another size than when the loop
\* began: the set iterator raises RuntimeError when asked for its next
\* element
SetChanged ==
    /\ proc.pc = "deliver"
    /\ Cardinality(SubscribersOf(subscribers, proc.event.type)) # proc.size

\* event = await self.queue.get()
LoopGet ==
    /\ proc.pc = "get"
    /\ queue # <<>>
    /\ proc' = [proc EXCEPT !.pc = "deliver",
                            !.event = Head(queue),
                            !.todo = SubscribersOf(subscribers, Head(queue).type),
                            !.size = Cardinality(SubscribersOf(subscribers,
                                                     Head(queue).type)),
                            !.taken = Append(@, Head(queue).timestamp)]
    /\ queue' = Tail(queue)
    /\ UNCHANGED <<subscribers, calls, tracker, orch, agents, sd, history, log>>
    /\ UNCHANGED <<agentVars, restVars>>

\* await callback(event) begins, for the next subscriber of the set;
\* _handle_resource_exceeded logs and enters shutdown(reason)
InvokeCallback ==
    /\ proc.pc = "deliver"
    /\ proc.active = ""
    /\ ~SetChanged
    /\ \E cb \in proc.todo :
         /\ proc' = [proc EXCEPT !.active = cb, !.todo = @ \ {cb}]
         /\ calls' = Append(calls, Call(proc.event, cb, "start"))
         /\ sd' = IF cb = "_handle_resource_exceeded"
                  THEN [sd EXCEPT !["handler"] =
                          SdBegin(@, << "Resource limit exceeded",
                                        proc.event.payload.limit_type >>)]
                  ELSE sd
    /\ UNCHANGED <<subscribers, tracker, orch, agents, history, queue, log>>
    /\ UNCHANGED <<agentVars, restVars>>

\* a callback of another component publishes an event while it runs
CallbackPublishes ==
    /\ proc.active \in GenericCallbacks
    /\ Len(log) < MaxDelivered
    /\ \E type \in DeliveryEventTypes :
         SetBus(publish(Bus, Event(type, "", NoPayload, Stamp)))
    /\ UNCHANGED sysVars
    /\ UNCHANGED <<agentVars, restVars>>

\* the ids of the agents of the manifest; the _handle_message callback of
\* an agent is named by the id of the agent
ManifestIds == { agent_manifest[k].agent_id : k \in 1..Len(agent_manifest) }

\* (variant) _handle_message processes every message, whoever the addressee
handle_message_NoAddressTest(cb, event) ==
    IF cb \in ManifestIds THEN << Call(event, cb, "process") >> ELSE << >>

\* BaseAgent._handle_message of agent cb: returns at once unless
\* payload["to"] is the id of the agent, else awaits _process_message
handle_message(cb, event) ==
    IF cb \in ManifestIds /\ event.payload.to = cb
    THEN << Call(event, cb, "process") >>
    ELSE << >>

\* EventBus.send_message(to_agent, run_id, payload): one AGENT_MESSAGE event
\* with payload {**payload, "to": to_agent}
bus_send_message(to_agent, payload, t) ==
    Event(AGENT_MESSAGE, "", [payload EXCEPT !.to = to_agent], t)

\* BaseAgent.send_message of agent self_id: "from" is set on the payload
\* and EventBus.send_message is called
base_send_message(self_id, to_agent, payload, t) ==
    bus_send_message(to_agent, [payload EXCEPT !.from = self_id], t)

\* the actions of the replies _process_message sends
ReplyActions == {"acknowledge", "help_response"}

\* (variant) the reply goes to the agent named by payload["from"]
process_message_ReplyToFrom(self_id, event, t) ==
    base_send_message(self_id, event.payload.from,
        [NoPayload EXCEPT !.action =
            IF event.payload.action = "request_help" THEN "help_response"
                                                     ELSE "acknowledge"], t)

\* Agent._process_message of agent self_id: sender = event.agent_id or
\* "unknown"; one reply to the sender, a help_response to a request_help
\* and an acknowledge to every other action
process_message(self_id, event, t) ==
    LET sender == IF event.agent_id = "" THEN "unknown" ELSE event.agent_id
    IN  base_send_message(self_id, sender,
            [NoPayload EXCEPT !.action =
                IF event.payload.action = "request_help" THEN "help_response"
                                                         ELSE "acknowledge"], t)

\* the awaited callback returns (for an agent's _handle_message: after
\* what it does with the event, the reply of _process_message included);
\* _handle_resource_exceeded returns when its shutdown() has; the
\* consumption record is appended
CallbackReturns ==
    /\ proc.active # ""
    /\ proc.active = "_handle_resource_exceeded" => sd["handler"].pc = "done"
    /\ LET processed == handle_message(proc.active, proc.event)
       IN  /\ calls' = Append(calls \o processed,
                              Call(proc.event, proc.active, "end"))
           /\ SetBus(publishAll(Bus,
                  [k \in 1..Len(processed) |->
                      process_message(proc.active, proc.event, Stamp)]))
    /\ proc' = [proc EXCEPT !.active = ""]
    /\ sd' = IF proc.active = "_handle_resource_exceeded"
             THEN [sd EXCEPT !["handler"].pc = "idle"]
             ELSE sd
    /\ UNCHANGED <<subscribers, tracker, orch, agents>>
    /\ UNCHANGED <<agentVars, restVars>>

\* the awaited callback raises an Exception: caught and logged
CallbackRaises ==
    /\ proc.active \in GenericCallbacks
    /\ calls' = Append(calls, Call(proc.event, proc.active, "fail"))
    /\ proc' = [proc EXCEPT !.active = "", !.todo = AfterRaise(@)]
    /\ UNCHANGED <<subscribers, tracker, orch, agents, sd, history, queue, log>>
    /\ UNCHANGED <<agentVars, restVars>>

\* the loop over the subscribers is over: task_done(), then the sentinel test
LoopTaskDone ==
    /\ proc.pc = "deliver"
    /\ proc.active = ""
    /\ proc.todo = {}
    /\ ~SetChanged
    /\ proc' = [proc EXCEPT !.pc = IF ExitsAfter(proc.event, queue)
                                   THEN "exited" ELSE "get",
                            !.event = NoEvent,
                            !.size = 0,
                            !.waiting = (queue = <<>>)]
    /\ UNCHANGED <<subscribers, calls, tracker, orch, agents, sd, history,
                   queue, log>>
    /\ UNCHANGED <<agentVars, restVars>>

\* the steps of the process_events task
ProcessEvents ==
    \/ LoopGet
    \/ InvokeCallback
    \/ CallbackReturns
    \/ LoopTaskDone

NextDelivery ==
    \/ Subscribe
    \/ StartProcessing
    \/ DeliveryPublish
    \/ CallbackPublishes
    \/ CallbackRaises
    \/ ProcessEvents

SpecDelivery == Init /\ [][NextDelivery]_vars

\* the event loop runs the process_events task whenever it can go on, and
\* an awaited callback returns or raises
FairSpecDelivery ==
    SpecDelivery /\ WF_vars(StartProcessing) /\ WF_vars(ProcessEvents)

-----------------------------------------------------------------------------
(* subscribe and unsubscribe while process_events runs                     *)

\* largest number of subscribe and unsubscribe calls in SpecSubs
MaxSubOps == 2

\* (variant) unsubscribe leaves the callback registered
unsubscribe_KeepsCallback(subs, type, cb) == subs

\* if event_type in self.subscribers and callback in
\* self.subscribers[event_type]: self.subscribers[event_type].remove(callback)
unsubscribe(subs, type, cb) ==
    IF type \in DOMAIN subs /\ cb \in subs[type]
    THEN [subs EXCEPT ![type] = @ \ {cb}]
    ELSE subs

\* the subscribe and unsubscribe calls made so far, recorded among the
\* callback invocations
SubOps ==
    Cardinality({ j \in 1..Len(calls) :
                    calls[j].kind \in {"subscribe", "unsubscribe"} })

\* where another coroutine, or the callback itself, can run: before the
\* loop started, while it waits in queue.get(), or while a callback of
\* another component is awaited
CanMutate ==
    \/ proc.pc \in {"not_started", "get"}
    \/ proc.active \in GenericCallbacks

\* the loop is iterating over the subscribers of this type
Iterating(type) == proc.pc = "deliver" /\ proc.event.type = type

\* EventBus.subscribe(type, cb); an element added to a set that is being
\* iterated may or may not be met by the iterator
SubscribeLive ==
    /\ CanMutate
    /\ SubOps < MaxSubOps
    /\ \E cb \in GenericCallbacks :
         /\ subscribers' = subscribe(subscribers, AGENT_MESSAGE, cb)
         /\ calls' = Append(calls,
               Call([timestamp |-> Stamp, type |-> AGENT_MESSAGE], cb, "subscribe"))
         /\ IF Iterating(AGENT_MESSAGE)
               /\ cb \notin SubscribersOf(subscribers, AGENT_MESSAGE)
            THEN \E met \in BOOLEAN :
                   proc' = [proc EXCEPT !.todo = IF met THEN @ \cup {cb} ELSE @]
            ELSE proc' = proc
    /\ UNCHANGED <<tracker, orch, agents, sd, history, queue, log>>
    /\ UNCHANGED <<agentVars, restVars>>

\* EventBus.unsubscribe(type, cb); an element removed from a set that is
\* being iterated is not met by the iterator any more
UnsubscribeLive ==
    /\ CanMutate
    /\ SubOps < MaxSubOps
    /\ \E cb \in GenericCallbacks :
         /\ subscribers' = unsubscribe(subscribers, AGENT_MESSAGE, cb)
         /\ calls' = Append(calls,
               Call([timestamp |-> Stamp, type |-> AGENT_MESSAGE], cb, "unsubscribe"))
         /\ proc' = IF Iterating(AGENT_MESSAGE)
                       /\ cb \notin SubscribersOf(subscribers', AGENT_MESSAGE)
                    THEN [proc EXCEPT !.todo = @ \ {cb}]
                    ELSE proc
    /\ UNCHANGED <<tracker, orch, agents, sd, history, queue, log>>
    /\ UNCHANGED <<agentVars, restVars>>

\* `for callback in self.subscribers[event.type]` asks the iterator for the
\* next element after the set changed size: RuntimeError, raised outside
\* the try of the loop body, ends process_events
LoopRaises ==
    /\ proc.pc = "deliver"
    /\ proc.active = ""
    /\ SetChanged
    /\ proc' = [proc EXCEPT !.pc = "crashed"]
    /\ UNCHANGED <<subscribers, calls, tracker, orch, agents, sd, history,
                   queue, log>>
    /\ UNCHANGED <<agentVars, restVars>>

NextSubs ==
    \/ StartProcessing
    \/ DeliveryPublish
    \/ SubscribeLive
    \/ UnsubscribeLive
    \/ ProcessEvents
    \/ LoopRaises

SpecSubs == Init /\ [][NextSubs]_vars

-----------------------------------------------------------------------------
(* ResourceTracker                                                         *)
(*                                                                         *)
(* Costs are whole units and the 80% thresholds are compared exactly       *)
(* (value * 10 >= limit * 8).  add_token_usage is synchronous: it adds and *)
(* creates a _check_limits task, which runs when the event loop schedules  *)
(* it; _check_limits has no suspension point (the queue is unbounded), so  *)
(* it is one step.                                                         *)

\* constraints.max_cost_usd of the configuration
max_cost_usd == 5

\* constraints.max_runtime_min of the configuration
max_runtime_min == 5

\* number of add_token_usage calls in a run
MaxAdds == 3

\* the cost_usd arguments of add_token_usage
Costs == {2, 3}

\* the clock moves by minutes between the calls
Minute == 60

\* value >= limit * 0.8
AtWarning(value, limit) == value * 10 >= limit * 8

\* time.time() - self.start_time
elapsed_seconds(tr, t) == t - tr.start_time

\* add_token_usage: the counters, then asyncio.create_task(_check_limits)
add_token_usage(tr, cost_usd) ==
    [tr EXCEPT !.current_cost_usd = @ + cost_usd,
               !.pending = @ + 1,
               !.adds = Append(@, tr.current_cost_usd + cost_usd)]

\* (variant) the limit itself is not yet over the limit
CostEvents_StrictLimit(tr) ==
    IF tr.current_cost_usd > max_cost_usd THEN <<RESOURCE_LIMIT_EXCEEDED>>
    ELSE IF AtWarning(tr.current_cost_usd, max_cost_usd) /\ ~tr.cost_warning_sent
         THEN <<RESOURCE_LIMIT_WARNING>>
         ELSE <<>>

\* the cost half of _check_limits: the event type it publishes, if any
CostEvents(tr) ==
    IF tr.current_cost_usd >= max_cost_usd THEN <<RESOURCE_LIMIT_EXCEEDED>>
    ELSE IF AtWarning(tr.current_cost_usd, max_cost_usd) /\ ~tr.cost_warning_sent
         THEN <<RESOURCE_LIMIT_WARNING>>
         ELSE <<>>

\* (variant) the warning does not look at time_warning_sent
TimeEvents_NoFlag(tr, t) ==
    IF elapsed_seconds(tr, t) >= max_runtime_min * 60
    THEN <<RESOURCE_LIMIT_EXCEEDED>>
    ELSE IF AtWarning(elapsed_seconds(tr, t), max_runtime_min * 60)
         THEN <<RESOURCE_LIMIT_WARNING>>
         ELSE <<>>

\* the time half of _check_limits
TimeEvents(tr, t) ==
    IF elapsed_seconds(tr, t) >= max_runtime_min * 60
    THEN <<RESOURCE_LIMIT_EXCEEDED>>
    ELSE IF AtWarning(elapsed_seconds(tr, t), max_runtime_min * 60)
            /\ ~tr.time_warning_sent
         THEN <<RESOURCE_LIMIT_WARNING>>
         ELSE <<>>

\* the event _check_limits builds for a limit kind
LimitEvent(type, kind, stamp) ==
    Event(type, "", [NoPayload EXCEPT !.limit_type = kind], stamp)

\* _check_limits at time t with `base` events published before it: the
\* tracker it leaves and the events it publishes, cost first
check_limits(tr, t, base) ==
    LET ce == CostEvents(tr)
        te == TimeEvents(tr, t)
    IN  [tracker |->
            [tr EXCEPT !.cost_warning_sent =
                           @ \/ ce = <<RESOURCE_LIMIT_WARNING>>,
                       !.time_warning_sent =
                           @ \/ te = <<RESOURCE_LIMIT_WARNING>>,
                       !.pending = @ - 1,
                       !.checks = Append(@, [cost |-> tr.current_cost_usd,
                                             elapsed |-> elapsed_seconds(tr, t)])],
         events |->
            [i \in 1..Len(ce) |-> LimitEvent(ce[i], "cost", base)]
            \o [i \in 1..Len(te) |-> LimitEvent(te[i], "time", base + Len(ce))]]

\* some caller adds usage
TrackerAdd ==
    /\ Len(tracker.adds) < MaxAdds
    /\ \E cost_usd \in Costs : tracker' = add_token_usage(tracker, cost_usd)
    /\ UNCHANGED <<subscribers, proc, calls, orch, agents, sd, history, queue,
                   log>>
    /\ UNCHANGED <<agentVars, restVars>>

\* the event loop runs a pending _check_limits task
CheckLimits ==
    /\ tracker.pending > 0
    /\ LET r == check_limits(tracker, now, Stamp)
       IN  /\ tracker' = r.tracker
           /\ SetBus(publishAll(Bus, r.events))
    /\ UNCHANGED <<subscribers, proc, calls, orch, agents, sd>>
    /\ UNCHANGED <<agentVars, restVars>>

\* a minute passes
TimePasses ==
    /\ now + Minute <= MaxTime
    /\ now' = now + Minute
    /\ UNCHANGED <<pc, is_running, tasks, current, plan, returned_via,
                   times_returned, history, queue, log>>
    /\ UNCHANGED sysVars

NextTracker ==
    \/ TrackerAdd
    \/ CheckLimits
    \/ TimePasses

SpecTracker == Init /\ [][NextTracker]_vars

\* a created task is run by the event loop
FairSpecTracker == SpecTracker /\ WF_vars(CheckLimits)

-----------------------------------------------------------------------------
(* Orchestrator.run, Orchestrator.shutdown and the agents they start       *)
(*                                                                         *)
(* orch.pc: "init"               before run()                              *)
(*          "gather"             at `await asyncio.gather` of the starts  *)
(*          "shutdown_invalid"   in shutdown("Configuration validation     *)
(*                               failed")                                  *)
(*          "shutdown_failed"    in shutdown("Agent execution failed")     *)
(*          "shutdown_success"   in shutdown("Run completed successfully") *)
(*          "await_processor"    at `await event_processor_task`           *)
(*          "returned"           run() has returned orch.result            *)
(* sd[c] is the shutdown() invocation of caller c: run() itself, or the    *)
(* _handle_resource_exceeded callback awaited by process_events.  Its pc   *)
(* is the stage it is suspended in; "done" after the sentinel publish.     *)
(* An agent is its start() coroutine and the task of its run loop:         *)
(*   task:  "pending" (the run loop is active), "returned", "raised",      *)
(*          "cancelled"                                                    *)
(*   start: "awaiting" (at `await self.task`), "returned", "raised"        *)
(* asyncio runs one task at a time, from one suspension to the next: while *)
(* process_events goes on without suspending, no other task takes a step,  *)
(* and a sleep or a timeout ends only after the tasks that are ready (the  *)
(* created _check_limits tasks, process_events with an event to take) have *)
(* run.  The event loop keeps running the tasks that are left when run()   *)
(* returns.                                                                *)

\* events the agents publish while their run loops are active
MaxAgentEvents == 1

\* add_token_usage calls made for the agents in a run
MaxAgentAdds == 2

\* the cost_usd of a call made for an agent
AgentCosts == {3}

\* process_events is running: it is between two suspensions
ProcBusy ==
    \/ /\ proc.pc = "deliver"
       /\ proc.active \notin GenericCallbacks
       /\ proc.active = "_handle_resource_exceeded" => sd["handler"].pc = "done"
    \/ /\ proc.pc = "get"
       /\ ~proc.waiting
       /\ queue # <<>>

\* the tasks that were ready have run: no created _check_limits task is
\* left and process_events is not about to take a queued event
ReadyTasksRan ==
    /\ tracker.pending = 0
    /\ ~(proc.pc = "get" /\ queue # <<>>)

\* the sentinel shutdown(reason) publishes
Sentinel(reason, stamp) ==
    Event(SYSTEM_SHUTDOWN, "", [NoPayload EXCEPT !.reason = reason], stamp)

\* validate_config publishes CONFIG_VALIDATED with status valid or invalid
ConfigValidated(valid, stamp) ==
    Event(CONFIG_VALIDATED, "",
          [NoPayload EXCEPT !.status = IF valid THEN "valid" ELSE "invalid"],
          stamp)

\* (variant) run() goes on to create the agents whatever validate_config says
ValidationPasses_Ignored(valid) == TRUE

\* if not await self.validate_config(): ... return False
ValidationPasses(valid) == valid

\* create_agents, then agent.start() of each agent: is_running = True, the
\* run loop is created as a task and awaited
StartedAgents ==
    [k \in 1..Len(agent_manifest) |->
        [agent_id |-> agent_manifest[k].agent_id, is_running |-> TRUE,
         task |-> "pending", start |-> "awaiting"]]

\* BaseAgent.__init__ subscribes each agent's _handle_message (named by the
\* agent's id) to AGENT_MESSAGE
RECURSIVE SubscribeAgents(_, _)
SubscribeAgents(subs, k) ==
    IF k > Len(agent_manifest) THEN subs
    ELSE SubscribeAgents(subscribe(subs, AGENT_MESSAGE,
                                   agent_manifest[k].agent_id), k + 1)

\* (variant) the agents are not stopped before the second pause
NextStage_SkipStop(stage) ==
    CASE stage = "pause1" -> "drain1"
      [] stage = "drain1" -> "pause2"
      [] stage = "stop"   -> "pause2"
      [] stage = "pause2" -> "drain2"
      [] stage = "drain2" -> "publish"

\* the statements of shutdown() in their order
NextStage(stage) ==
    CASE stage = "pause1" -> "drain1"
      [] stage = "drain1" -> "stop"
      [] stage = "stop"   -> "pause2"
      [] stage = "pause2" -> "drain2"
      [] stage = "drain2" -> "publish"

\* shutdown() goes on to its next statement
SdAdvance(s) ==
    [s EXCEPT !.pc = NextStage(s.pc), !.stages = Append(@, NextStage(s.pc))]

\* BaseAgent.stop(): nothing if the agent is not running; else the task is
\* cancelled and awaited, and is_running = False in the finally clause
stop(a) ==
    IF ~a.is_running THEN a
    ELSE [a EXCEPT !.is_running = FALSE,
                   !.task = IF @ = "pending" THEN "cancelled" ELSE @]

\* `await self.task` in stop() raises the error the run loop ended with
StopRaises(a) == a.is_running /\ a.task = "raised"

\* (variant) an error of agent.stop() ends the loop over the agents
NextToStop_AbortOnError(next, raised, n) == IF raised THEN n + 1 ELSE next + 1

\* for agent in self.agents: try: await agent.stop() except Exception: log
NextToStop(next, raised, n) == next + 1

\* run() after its shutdown(): return False, or await the event processor
OrchAfterShutdown(o) ==
    IF o.pc = "shutdown_success"
    THEN [o EXCEPT !.pc = "await_processor"]
    ELSE [o EXCEPT !.pc = "returned", !.result = "False"]

\* run() up to its first suspension: the event processor task is created,
\* SYSTEM_START and CONFIG_VALIDATED are published; then either the agents
\* are created and started, or shutdown() is entered
RunBegin ==
    /\ orch.pc = "init"
    /\ \E valid \in BOOLEAN :
         /\ SetBus(publishAll(Bus,
                << Event(SYSTEM_START, "", NoPayload, Stamp),
                   ConfigValidated(valid, Stamp + 1) >>))
         /\ IF ValidationPasses(valid)
            THEN /\ agents' = StartedAgents
                 /\ subscribers' = SubscribeAgents(subscribers, 1)
                 /\ orch' = [orch EXCEPT !.pc = "gather",
                                         !.valid = IF valid THEN "valid"
                                                   ELSE "invalid"]
                 /\ sd' = sd
            ELSE /\ agents' = <<>>
                 /\ subscribers' = subscribers
                 /\ orch' = [orch EXCEPT !.pc = "shutdown_invalid",
                                         !.valid = IF valid THEN "valid"
                                                   ELSE "invalid"]
                 /\ sd' = [sd EXCEPT !["run"] =
                            SdBegin(@, << "Configuration validation failed" >>)]
    /\ proc' = [proc EXCEPT !.pc = "get"]
    /\ UNCHANGED <<calls, tracker>>
    /\ UNCHANGED <<agentVars, restVars>>

\* an agent publishes an event from its run loop
AgentPublishes ==
    /\ ~ProcBusy
    /\ Cardinality({ i \in 1..Len(log) : log[i].agent_id # "" }) < MaxAgentEvents
    /\ \E k \in 1..Len(agents) :
         /\ agents[k].task = "pending"
         /\ SetBus(publish(Bus, Event(AGENT_TASK_COMPLETED, agents[k].agent_id,
                                      NoPayload, Stamp)))
    /\ UNCHANGED sysVars
    /\ UNCHANGED <<agentVars, restVars>>

\* usage is added for a call made by an agent whose run loop is active
AgentAddsUsage ==
    /\ ~ProcBusy
    /\ Len(tracker.adds) < MaxAgentAdds
    /\ \E k \in 1..Len(agents) : agents[k].task = "pending"
    /\ \E cost_usd \in AgentCosts : tracker' = add_token_usage(tracker, cost_usd)
    /\ UNCHANGED <<subscribers, proc, calls, orch, agents, sd, history, queue,
                   log>>
    /\ UNCHANGED <<agentVars, restVars>>

\* the run loop of an agent ends: it returns, or raises an error
AgentTaskEnds ==
    /\ ~ProcBusy
    /\ \E k \in 1..Len(agents) : \E outcome \in {"returned", "raised"} :
         /\ agents[k].task = "pending"
         /\ agents' = [agents EXCEPT ![k].task = outcome]
    /\ UNCHANGED <<subscribers, proc, calls, tracker, orch, sd, history, queue,
                   log>>
    /\ UNCHANGED <<agentVars, restVars>>

\* (variant) start() logs the error of the run loop and returns
StartResult_SwallowsError(task) == "returned"

\* how start() ends for a run loop that ended: `except CancelledError` logs,
\* `except Exception` logs and raises again
StartResult(task) == IF task = "raised" THEN "raised" ELSE "returned"

\* start() resumes from `await self.task`: CancelledError is caught, any
\* other error is raised again; finally is_running = False
StartResumes ==
    /\ ~ProcBusy
    /\ \E k \in 1..Len(agents) :
         /\ agents[k].start = "awaiting"
         /\ agents[k].task # "pending"
         /\ agents' = [agents EXCEPT
                ![k].is_running = FALSE,
                ![k].start = StartResult(agents[k].task)]
    /\ UNCHANGED <<subscribers, proc, calls, tracker, orch, sd, history, queue,
                   log>>
    /\ UNCHANGED <<agentVars, restVars>>

\* gather returns: every start() has returned; run() enters its shutdown
GatherReturns ==
    /\ ~ProcBusy
    /\ orch.pc = "gather"
    /\ \A k \in 1..Len(agents) : agents[k].start = "returned"
    /\ orch' = [orch EXCEPT !.pc = "shutdown_success"]
    /\ sd' = [sd EXCEPT !["run"] = SdBegin(@, << "Run completed successfully" >>)]
    /\ UNCHANGED <<subscribers, proc, calls, tracker, agents, history, queue,
                   log>>
    /\ UNCHANGED <<agentVars, restVars>>

\* gather raises the error of a start(): except Exception, shutdown
GatherRaises ==
    /\ ~ProcBusy
    /\ orch.pc = "gather"
    /\ \E k \in 1..Len(agents) : agents[k].start = "raised"
    /\ orch' = [orch EXCEPT !.pc = "shutdown_failed"]
    /\ sd' = [sd EXCEPT !["run"] = SdBegin(@, << "Agent execution failed" >>)]
    /\ UNCHANGED <<subscribers, proc, calls, tracker, agents, history, queue,
                   log>>
    /\ UNCHANGED <<agentVars, restVars>>

\* asyncio.sleep(0.5) or asyncio.sleep(0.2) of a shutdown() ends
SdPauseReturns ==
    /\ ~ProcBusy
    /\ ReadyTasksRan
    /\ \E c \in SdCallers :
         /\ sd[c].pc \in {"pause1", "pause2"}
         /\ sd' = [sd EXCEPT ![c] = SdAdvance(@)]
    /\ UNCHANGED <<subscribers, proc, calls, tracker, orch, agents, history,
                   queue, log>>
    /\ UNCHANGED <<agentVars, restVars>>

\* wait_for(queue.join(), timeout) ends: the queue has drained, or the
\* timeout has passed (TimeoutError is caught).  After the first drain the
\* loop over the agents begins; after the second the sentinel is published,
\* shutdown() returns and, in run(), run() goes on
SdDrainEnds ==
    /\ ~ProcBusy
    /\ \E c \in SdCallers :
         /\ sd[c].pc \in {"drain1", "drain2"}
         /\ Unfinished > 0 => ReadyTasksRan
         /\ LET s == [SdAdvance(sd[c]) EXCEPT
                        !.timeouts = IF Unfinished > 0
                                     THEN @ \cup {sd[c].pc} ELSE @]
            IN  IF s.pc = "publish"
                THEN /\ sd' = [sd EXCEPT ![c] = [s EXCEPT !.pc = "done"]]
                     /\ SetBus(publish(Bus, Sentinel(s.reason, Stamp)))
                     /\ orch' = IF c = "run" THEN OrchAfterShutdown(orch)
                                ELSE orch
                ELSE /\ sd' = [sd EXCEPT ![c] = s]
                     /\ UNCHANGED <<history, queue, log, orch>>
    /\ UNCHANGED <<subscribers, proc, calls, tracker, agents>>
    /\ UNCHANGED <<agentVars, restVars>>

\* the loop over self.agents in shutdown(): the next agent is stopped, an
\* error of its stop() is logged; after the last agent the second pause
SdStop ==
    /\ ~ProcBusy
    /\ \E c \in SdCallers :
         /\ sd[c].pc = "stop"
         /\ IF sd[c].next > Len(agents)
            THEN /\ sd' = [sd EXCEPT ![c] = SdAdvance(@)]
                 /\ agents' = agents
            ELSE LET a == agents[sd[c].next]
                 IN  /\ agents' = [agents EXCEPT ![sd[c].next] = stop(a)]
                     /\ sd' = [sd EXCEPT
                          ![c].next = NextToStop(@, StopRaises(a), Len(agents)),
                          ![c].errors = IF StopRaises(a)
                                        THEN @ \cup {a.agent_id} ELSE @]
    /\ UNCHANGED <<subscribers, proc, calls, tracker, orch, history, queue, log>>
    /\ UNCHANGED <<agentVars, restVars>>

\* `await event_processor_task` returns once process_events has exited
RunAwaitReturns ==
    /\ ~ProcBusy
    /\ orch.pc = "await_processor"
    /\ proc.pc = "exited"
    /\ orch' = [orch EXCEPT !.pc = "returned", !.result = "True"]
    /\ UNCHANGED <<subscribers, proc, calls, tracker, agents, sd, history,
                   queue, log>>
    /\ UNCHANGED <<agentVars, restVars>>

\* main(): asyncio.run(run_orchestrator(config)) and `return 0`, whatever
\* run() returned; 1 only if an exception came out of it.  The value is the
\* exit code of the process (sys.exit(main()))
main(result) == IF result = "raised" THEN 1 ELSE 0

\* the steps of the shutdown() invocations
ShutdownStep ==
    \/ SdPauseReturns
    \/ SdDrainEnds
    \/ SdStop

\* the steps of run() and of the start() coroutines it gathers
RunStep ==
    \/ StartResumes
    \/ GatherReturns
    \/ GatherRaises
    \/ RunAwaitReturns

NextOrch ==
    \/ RunBegin
    \/ AgentPublishes
    \/ AgentAddsUsage
    \/ AgentTaskEnds
    \/ CheckLimits
    \/ ProcessEvents
    \/ ShutdownStep
    \/ RunStep

SpecOrch == Init /\ [][NextOrch]_vars

\* the event loop runs every task that can go on; the agents' run loops
\* need not end by themselves
FairSpecOrch ==
    /\ SpecOrch
    /\ WF_vars(RunBegin)
    /\ WF_vars(CheckLimits)
    /\ WF_vars(ProcessEvents)
    /\ WF_vars(ShutdownStep)
    /\ WF_vars(RunStep)

\* directed messages the agents send from their run loops in a run
MaxAgentMessages == 1

\* the directed messages sent from run loops so far
AgentMessages ==
    Cardinality({ i \in 1..Len(log) : /\ log[i].type = AGENT_MESSAGE
                                      /\ log[i].payload.action \notin ReplyActions })

\* an agent whose run loop is active sends a message to another agent of
\* the manifest (BaseAgent.send_message)
AgentSendsMessage ==
    /\ ~ProcBusy
    /\ AgentMessages < MaxAgentMessages
    /\ \E k \in 1..Len(agents) : \E to_agent \in ManifestIds :
         /\ agents[k].task = "pending"
         /\ to_agent # agents[k].agent_id
         /\ SetBus(publish(Bus,
                base_send_message(agents[k].agent_id, to_agent,
                                  [NoPayload EXCEPT !.action = "announce"],
                                  Stamp)))
    /\ UNCHANGED sysVars
    /\ UNCHANGED <<agentVars, restVars>>

\* a run in which the events the agents publish are directed messages
NextOrchMessages ==
    \/ RunBegin
    \/ AgentSendsMessage
    \/ AgentAddsUsage
    \/ AgentTaskEnds
    \/ CheckLimits
    \/ ProcessEvents
    \/ ShutdownStep
    \/ RunStep

SpecOrchMessages == Init /\ [][NextOrchMessages]_vars

FairSpecOrchMessages ==
    /\ SpecOrchMessages
    /\ WF_vars(RunBegin)
    /\ WF_vars(CheckLimits)
    /\ WF_vars(ProcessEvents)
    /\ WF_vars(ShutdownStep)
    /\ WF_vars(RunStep)

-----------------------------------------------------------------------------
(* Directed messages: EventBus.send_message and BaseAgent._handle_message  *)

\* number of messages sent in SpecMessage
MaxMessages == 2

\* the addressees callers name: the agents of the manifest and an id that
\* no agent has
Addressees == ManifestIds \cup {"nobody"}

\* the "to" key a caller's payload may hold already
StaleTo == "stale"

\* the actions of the messages SendMessage sends: one that is acknowledged
\* and the one that is answered with a help_response
RunLoopActions == {"announce", "request_help"}

\* the number of messages published that are not replies
RunLoopMessages ==
    Cardinality({ i \in 1..Len(log) : log[i].payload.action \notin ReplyActions })

\* the agents are constructed (each subscribes its _handle_message) and
\* process_events is started
MessagingStart ==
    /\ proc.pc = "not_started"
    /\ subscribers' = SubscribeAgents(subscribers, 1)
    /\ proc' = [proc EXCEPT !.pc = "get"]
    /\ UNCHANGED <<calls, tracker, orch, agents, sd, history, queue, log>>
    /\ UNCHANGED <<agentVars, restVars>>

\* some caller sends a directed message
SendMessage ==
    /\ proc.pc # "not_started"
    /\ RunLoopMessages < MaxMessages
    /\ \E to_agent \in Addressees : \E from \in ManifestIds :
       \E to \in {"", StaleTo} : \E action \in RunLoopActions :
         SetBus(publish(Bus,
            bus_send_message(to_agent,
                [NoPayload EXCEPT !.action = action, !.from = from,
                                  !.to = to], Stamp)))
    /\ UNCHANGED sysVars
    /\ UNCHANGED <<agentVars, restVars>>

NextMessage ==
    \/ MessagingStart
    \/ SendMessage
    \/ ProcessEvents

SpecMessage == Init /\ [][NextMessage]_vars

\* the event loop runs process_events whenever it can go on
FairSpecMessage ==
    SpecMessage /\ WF_vars(MessagingStart) /\ WF_vars(ProcessEvents)

-----------------------------------------------------------------------------
(* AgentFactory: _build_manifest and create_agents                         *)

\* largest number of agent groups in a configuration
MaxGroups == 2

\* largest `count` of an agent group
MaxCount == 2

\* largest number of agents that announce themselves in SpecFactory
MaxAnnounce == 2

\* the types the manifest counts: the keys of idx_counter
AgentTypes == {"builder", "operator"}

\* the goal of a group that has no "goal" key
AbsentGoal == "<absent>"

\* the goals a group declares
Goals == {AbsentGoal, "goal A", "goal B"}

\* an agent group of the configuration; count = None: the key is absent
AgentGroups ==
    [type : AgentTypes, count : {None} \cup (0..MaxCount), goal : Goals]

\* the configurations: every list of at most MaxGroups agent groups
Configs ==
    { [agents |-> g] :
        g \in UNION { [1..n -> AgentGroups] : n \in 0..MaxGroups } }

\* str(d) of one decimal digit
Digit(d) ==
    << "0", "1", "2", "3", "4", "5", "6", "7", "8", "9" >>[d + 1]

\* the decimal text an f-string gives a positive integer
RECURSIVE Dec(_)
Dec(n) == IF n < 10 THEN Digit(n) ELSE Dec(n \div 10) \o Digit(n % 10)

\* entry.get("count", 1)
count_of(entry) == IF entry.count = None THEN 1 ELSE entry.count

\* idx_counter: Dict[str, int] = {"builder": 0, "operator": 0}
idx_counter_init == [t \in AgentTypes |-> 0]

\* for _ in range(count): the counter of the type of the entry is
\* incremented and an entry with the id f"{type}-{counter}" is appended;
\* the value is << manifest, idx_counter >>
RECURSIVE ExpandGroup(_, _, _, _)
ExpandGroup(entry, n, m, idx) ==
    IF n <= 0 THEN << m, idx >>
    ELSE LET idx2 == [idx EXCEPT ![entry.type] = @ + 1]
         IN  ExpandGroup(entry, n - 1,
                 Append(m, [agent_id |-> entry.type \o "-" \o Dec(idx2[entry.type]),
                            type |-> entry.type,
                            goal |-> IF entry.goal = AbsentGoal THEN ""
                                                                ELSE entry.goal]),
                 idx2)

\* (variant) the index is counted per group, not per type
RECURSIVE BuildFrom_IndexPerGroup(_, _, _)
BuildFrom_IndexPerGroup(entries, m, idx) ==
    IF entries = << >> THEN m
    ELSE BuildFrom_IndexPerGroup(Tail(entries),
             ExpandGroup(Head(entries), count_of(Head(entries)), m,
                         idx_counter_init)[1],
             idx)

\* for entry in config.get("agents", []): the groups in declaration order,
\* one idx_counter for the whole list
RECURSIVE BuildFrom(_, _, _)
BuildFrom(entries, m, idx) ==
    IF entries = << >> THEN m
    ELSE LET r == ExpandGroup(Head(entries), count_of(Head(entries)), m, idx)
         IN  BuildFrom(Tail(entries), r[1], r[2])

\* AgentFactory._build_manifest(config)
build_manifest(cfg) == BuildFrom(cfg.agents, << >>, idx_counter_init)

\* (variant) the copy is handed to the agent without the run id
cfg_copy_WithoutRunId(cfg, rid) == cfg

\* cfg_copy = dict(config); cfg_copy["run_id"] = run_id
cfg_copy(cfg, rid) == [agents |-> cfg.agents, run_id |-> rid]

\* config.get("run_id", "unknown")
config_run_id(cfg) ==
    IF "run_id" \in DOMAIN cfg THEN cfg.run_id ELSE "unknown"

\* the objects of the heap the factory deals with: the configuration it is
\* given is object 0, the i-th dict(config) makes object i, and the list
\* _build_manifest returns is one object
ConfigRef == 0
ManifestRef == 1

\* next((a for a in config.get("agents", []) if a.get("type") ==
\* self.agent_type and self._matches_agent_entry(a)), {}): the first group
\* of the type of the agent, the test of _matches_agent_entry (the type is
\* part of the agent's id) being true of every group of that type; 0 if
\* there is none
RECURSIVE agent_entry(_, _, _)
agent_entry(entries, agent_type, k) ==
    IF k > Len(entries) THEN 0
    ELSE IF entries[k].type = agent_type THEN k
    ELSE agent_entry(entries, agent_type, k + 1)

\* self.goal = self.agent_entry.get("goal", "No specific goal defined");
\* agent_type is agent_id.split('-')[0], the type the id was built from
agent_goal(cfg, agent_type) ==
    LET k == agent_entry(cfg.agents, agent_type, 1)
    IN  IF k = 0 \/ cfg.agents[k].goal = AbsentGoal
        THEN "No specific goal defined"
        ELSE cfg.agents[k].goal

\* (variant) every agent is handed the dict object the factory was given
NewAgent_OriginalConfig(m_entry, cfg, obj) ==
    [agent_id |-> m_entry.agent_id,
     run_id |-> config_run_id(cfg),
     goal |-> agent_goal(cfg, m_entry.type),
     config |-> cfg,
     config_ref |-> ConfigRef,
     manifest_ref |-> ManifestRef,
     announced |-> FALSE]

\* Agent(agent_id=m["agent_id"], config=cfg_copy, ..., agent_manifest=manifest)
\* as BaseAgent.__init__ stores it; obj is the dict object of cfg
NewAgent(m_entry, cfg, obj) ==
    [agent_id |-> m_entry.agent_id,
     run_id |-> config_run_id(cfg),
     goal |-> agent_goal(cfg, m_entry.type),
     config |-> cfg,
     config_ref |-> obj,
     manifest_ref |-> ManifestRef,
     announced |-> FALSE]

\* for _ in range(count): m = next(manifest_iter), a new copy of the
\* configuration, a new agent appended to `created`
RECURSIVE CreateGroup(_, _, _, _, _)
CreateGroup(n, m, acc, cfg, rid) ==
    IF n <= 0 THEN acc
    ELSE CreateGroup(n - 1, m,
             Append(acc, NewAgent(m[Len(acc) + 1], cfg_copy(cfg, rid),
                                  Len(acc) + 1)),
             cfg, rid)

\* for entry in agents_cfg
RECURSIVE CreateFrom(_, _, _, _, _)
CreateFrom(entries, m, acc, cfg, rid) ==
    IF entries = << >> THEN acc
    ELSE CreateFrom(Tail(entries), m,
             CreateGroup(count_of(Head(entries)), m, acc, cfg, rid),
             cfg, rid)

\* AgentFactory.create_agents(config, run_id): nothing is built for an
\* empty list of groups
create_agents(cfg, rid) ==
    IF cfg.agents = << >>
    THEN [manifest |-> << >>, created |-> << >>]
    ELSE LET m == build_manifest(cfg)
         IN  [manifest |-> m,
              created |-> CreateFrom(cfg.agents, m, << >>, cfg, rid)]

\* every agent constructed subscribes its _handle_message
RECURSIVE SubscribeCreated(_, _)
SubscribeCreated(subs, as) ==
    IF as = << >> THEN subs
    ELSE SubscribeCreated(subscribe(subs, AGENT_MESSAGE, Head(as).agent_id),
                          Tail(as))

\* an event of the run rid
EventOfRun(rid, e) == [e EXCEPT !.run_id = rid]

\* _announce_presence of agent a: BaseAgent.send_message to every entry of
\* the manifest that has another id, in manifest order
RECURSIVE announce_presence(_, _, _, _)
announce_presence(b, a, m, k) ==
    IF k > Len(m) THEN b
    ELSE IF m[k].agent_id = a.agent_id THEN announce_presence(b, a, m, k + 1)
    ELSE announce_presence(
           publish(b, EventOfRun(a.run_id,
               bus_send_message(m[k].agent_id,
                   [NoPayload EXCEPT !.action = "announce",
                                     !.from = a.agent_id],
                   Len(b.log)))),
           a, m, k + 1)

\* the number of agents that announced themselves
Announced == Cardinality({ i \in 1..Len(created) : created[i].announced })

\* self.agents = await self.agent_factory.create_agents(self.config,
\* self.run_id)
CreateAgents ==
    /\ created = << >>
    /\ manifest = << >>
    /\ LET r == create_agents(config, run_id)
       IN  /\ manifest' = r.manifest
           /\ created' = r.created
           /\ subscribers' = SubscribeCreated(subscribers, r.created)
    /\ UNCHANGED <<proc, calls, tracker, orch, agents, sd, config, ret, life,
                   history, queue, log>>
    /\ UNCHANGED agentVars

\* the run loop of a created agent begins: it announces itself to the
\* agents of the manifest it holds
AnnouncePresence ==
    /\ Announced < MaxAnnounce
    /\ \E i \in 1..Len(created) :
         /\ ~created[i].announced
         /\ SetBus(announce_presence(Bus, created[i], manifest, 1))
         /\ created' = [created EXCEPT ![i].announced = TRUE]
    /\ UNCHANGED <<subscribers, proc, calls, tracker, orch, agents, sd,
                   config, manifest, ret, life>>
    /\ UNCHANGED agentVars

InitFactory == InitState /\ config \in Configs

NextFactory ==
    \/ CreateAgents
    \/ AnnouncePresence

SpecFactory == InitFactory /\ [][NextFactory]_vars

-----------------------------------------------------------------------------
(* Vocabulary of the properties *)

TaskIndexes == 1..Len(tasks)

\* a status step the contract PENDING -> IN_PROGRESS -> {COMPLETED, FAILED}
\* allows
StatusStepAllowed(a, b) ==
    \/ a = b
    \/ a = PENDING /\ b = IN_PROGRESS
    \/ a = IN_PROGRESS /\ b \in {COMPLETED, FAILED}

\* some task has id d and is COMPLETED
IsCompletedId(d) == \E j \in TaskIndexes : tasks[j].id = d /\ tasks[j].status = COMPLETED

\* the dependencies task k was created with
DeclaredDeps(k) == PrefixDependencies(plan[k].dependencies)

\* the positions of plan[k].dependencies that name a task of another agent
ExternalPositions(k) ==
    { i \in 1..Len(plan[k].dependencies) : IsOtherAgents(plan[k].dependencies[i]) }

\* the ids of this agent's tasks that task k declared as dependencies
DeclaredLocal(k) ==
    { EnsurePrefixed(plan[k].dependencies[i]) :
        i \in (1..Len(plan[k].dependencies)) \ ExternalPositions(k) }

\* task k was handed out by the scheduler
WasReturned(k) == returned_via[k] # ""

\* task k depends on exactly one task, B, of the same agent
OnlyDependsOn(k, B) ==
    /\ B # k
    /\ plan[k].dependencies = <<plan[B].id>>

Max(S) == CHOOSE x \in S : \A y \in S : y <= x

\* every declared local dependency of k was COMPLETED by time t
LocallyReadyBy(k, t) ==
    \A d \in DeclaredLocal(k) :
        \E j \in TaskIndexes : /\ tasks[j].id = d
                               /\ tasks[j].status = COMPLETED
                               /\ tasks[j].completed_at <= t

\* the moment task k became locally ready (meaningful when it is)
LocallyReadyAt(k) ==
    Max({tasks[k].created_at} \cup
        { tasks[j].completed_at : j \in { i \in TaskIndexes :
              tasks[i].id \in DeclaredLocal(k) /\ tasks[i].status = COMPLETED } })

-----------------------------------------------------------------------------
(* BaseAgent.start and BaseAgent.stop under any callers *)

\* calls of start() and stop() made on the agent
MaxLifeCalls == 4

\* the calls made so far
LifeCalls == Len(life.returns) + Cardinality(life.frames) + Len(life.woken)

\* the task has not ended
Active(loop) == loop \in {"pending", "cancelling"}

\* a call returns or raises; is_running is recorded as the call leaves it
Returned(l, call, how, created_loop) ==
    [l EXCEPT !.returns = Append(@, [call |-> call, how |-> how,
                                     is_running |-> l.is_running,
                                     created_loop |-> created_loop])]

\* if self.is_running: warning; return
StartOnRunning(l) == Returned(l, "start", "returned", FALSE)

\* how `await self.task` ends in start() and in stop() for a task that
\* ended: CancelledError is caught; start() raises any other error again
\* and stop() does not catch it
AwaitResult(loop) == IF loop = "raised" THEN "raised" ELSE "returned"

\* a coroutine that is ready to run calls start(), up to its suspension in
\* `await self.task` or up to its return
LifeStart ==
    /\ LifeCalls < MaxLifeCalls
    /\ life.woken = <<>> \/ ~life.resumed
    /\ life' =
         IF life.is_running THEN StartOnRunning(life)
         ELSE [life EXCEPT !.is_running = TRUE,
                           !.loops = Append(@, "pending"),
                           !.task = Len(life.loops) + 1,
                           !.frames = @ \cup {[call |-> "start",
                                               loop |-> Len(life.loops) + 1,
                                               n |-> LifeCalls]}]
    /\ UNCHANGED <<subscribers, proc, calls, tracker, orch, agents, sd,
                   config, manifest, created, ret, history, queue, log>>
    /\ UNCHANGED agentVars

\* a coroutine that is ready to run calls stop(): nothing if the agent is
\* not running or has no task; else the task is cancelled (no effect on a
\* task that has ended) and awaited, which does not suspend the caller if
\* the task has ended; finally is_running = False
LifeStop ==
    /\ LifeCalls < MaxLifeCalls
    /\ life.woken = <<>> \/ ~life.resumed
    /\ life' =
         IF ~life.is_running \/ life.task = 0
         THEN Returned(life, "stop", "returned", FALSE)
         ELSE IF Active(life.loops[life.task])
         THEN [life EXCEPT !.loops[life.task] = "cancelling",
                           !.frames = @ \cup {[call |-> "stop",
                                               loop |-> life.task,
                                               n |-> LifeCalls]}]
         ELSE Returned([life EXCEPT !.is_running = FALSE], "stop",
                       AwaitResult(life.loops[life.task]), FALSE)
    /\ UNCHANGED <<subscribers, proc, calls, tracker, orch, agents, sd,
                   config, manifest, created, ret, history, queue, log>>
    /\ UNCHANGED agentVars

\* the task that awaits a suspended start() or stop() is cancelled: the
\* cancellation is passed on to the run loop the call awaits
LifeCancelCaller ==
    /\ \E f \in life.frames :
         /\ life.loops[f.loop] = "pending"
         /\ life' = [life EXCEPT !.loops[f.loop] = "cancelling"]
    /\ UNCHANGED <<subscribers, proc, calls, tracker, orch, agents, sd,
                   config, manifest, created, ret, history, queue, log>>
    /\ UNCHANGED agentVars

\* the frames that await loop k, in the order they began to await it
RECURSIVE FramesOf(_, _)
FramesOf(fs, k) ==
    IF \A f \in fs : f.loop # k THEN <<>>
    ELSE LET f == CHOOSE g \in fs :
                      /\ g.loop = k
                      /\ \A h \in fs : h.loop = k => g.n <= h.n
         IN  <<f>> \o FramesOf(fs \ {f}, k)

\* a run loop ends: it returns or raises, or CancelledError is raised in it
\* (Agent._run raises it again); the calls that await it are woken
LoopEnds ==
    /\ \E k \in 1..Len(life.loops) : \E outcome \in {"returned", "raised"} :
         /\ Active(life.loops[k])
         /\ life' = [life EXCEPT
                !.loops[k] = IF @ = "cancelling" THEN "cancelled" ELSE outcome,
                !.frames = {f \in @ : f.loop # k},
                !.woken = @ \o FramesOf(life.frames, k),
                !.resumed = IF life.woken = <<>> THEN FALSE ELSE @]
    /\ UNCHANGED <<subscribers, proc, calls, tracker, orch, agents, sd,
                   config, manifest, created, ret, history, queue, log>>
    /\ UNCHANGED agentVars

\* a woken start() or stop() resumes from `await self.task`: finally
\* is_running = False, and the call returns or raises
FrameResumes ==
    /\ life.woken # <<>>
    /\ LET f == Head(life.woken)
       IN  life' = Returned([life EXCEPT !.is_running = FALSE,
                                         !.woken = Tail(@),
                                         !.resumed = TRUE],
                            f.call, AwaitResult(life.loops[f.loop]),
                            f.call = "start")
    /\ UNCHANGED <<subscribers, proc, calls, tracker, orch, agents, sd,
                   config, manifest, created, ret, history, queue, log>>
    /\ UNCHANGED agentVars

NextLife ==
    \/ LifeStart
    \/ LifeStop
    \/ LifeCancelCaller
    \/ LoopEnds
    \/ FrameResumes

SpecLife == Init /\ [][NextLife]_vars

-----------------------------------------------------------------------------
(* C1 *)

\* C1: in every step of every run (task failure, dependency timeouts and
\* cancellation included) each task's status stays or moves forward along
\* PENDING -> IN_PROGRESS -> {COMPLETED, FAILED}; no task is dropped from
\* the list.  Hence no return to PENDING, no change after COMPLETED or
\* FAILED, and at most one entry into IN_PROGRESS.
C1_StatusMonotone ==
    [][ /\ Len(tasks') >= Len(tasks)
        /\ \A k \in TaskIndexes :
              StatusStepAllowed(tasks[k].status, tasks'[k].status) ]_vars

\* a run in which one task failed and another was forced by the deadlock
\* break and completed
C1_Witness ==
    \E j \in TaskIndexes, k \in TaskIndexes :
        /\ tasks[j].status = COMPLETED
        /\ returned_via[j] = "deadlock"
        /\ tasks[k].status = FAILED

-----------------------------------------------------------------------------
(* C2 *)

\* C2 as claimed: on every return path, every dependency the returned task
\* declared on a task of the same agent is COMPLETED.
C2_Original ==
    \A k \in TaskIndexes :
        WasReturned(k) => \A d \in DeclaredLocal(k) : IsCompletedId(d)

\* C2 (amended): a task returned by the scan of the task list (the
\* `return task` of the ready path or of the external-timeout path) has
\* every dependency it was created with on this agent's ids COMPLETED;
\* the deadlock break is the one return that skips unmet dependencies.
C2_ScanReturnsOnlyMetLocalDeps ==
    \A k \in TaskIndexes :
        returned_via[k] \in {"ready", "external_timeout"} =>
            \A i \in 1..Len(DeclaredDeps(k)) :
                StartsWithAgentId(DeclaredDeps(k)[i]) =>
                    IsCompletedId(DeclaredDeps(k)[i])

\* a task with a dependency was returned by the scan
C2_Witness ==
    \E k \in TaskIndexes :
        /\ returned_via[k] = "ready"
        /\ Len(plan[k].dependencies) > 0

-----------------------------------------------------------------------------
(* C3 *)

\* C3 as claimed: a task A whose only dependency is task B of the same
\* agent is returned only once B is COMPLETED, however long A has waited.
C3_Original ==
    \A A \in TaskIndexes, B \in TaskIndexes :
        OnlyDependsOn(A, B) /\ WasReturned(A) => tasks[B].status = COMPLETED

\* C3 (amended): such a task A is returned at most once, and exactly once
\* in a run that reaches its end; when the scan returns it, B is COMPLETED
\* and was so before A started; the only earlier return is the deadlock
\* break, taken when A's wait has lasted max_dependency_wait_time.
C3_ReturnedAfterBOrByDeadlockBreak ==
    \A A \in TaskIndexes, B \in TaskIndexes :
        OnlyDependsOn(A, B) =>
            /\ times_returned[A] <= 1
            /\ pc = "done" => times_returned[A] = 1
            /\ returned_via[A] \in {"ready", "external_timeout"} =>
                  /\ tasks[B].status = COMPLETED
                  /\ tasks[B].completed_at <= tasks[A].started_at
            /\ returned_via[A] = "deadlock" =>
                  /\ tasks[A].dependency_wait_start # None
                  /\ tasks[A].started_at - tasks[A].dependency_wait_start
                        >= max_dependency_wait_time

\* A was returned by the scan after B completed
C3_Witness ==
    \E A \in TaskIndexes, B \in TaskIndexes :
        /\ OnlyDependsOn(A, B)
        /\ returned_via[A] = "ready"
        /\ tasks[B].status = COMPLETED
        /\ pc = "done"

-----------------------------------------------------------------------------
(* C4 *)

\* task k is PENDING, declared a dependency on another agent's task, has
\* all its declared local dependencies COMPLETED and a running wait timer
WaitsForExternal(k) ==
    /\ tasks[k].status = PENDING
    /\ ExternalPositions(k) # {}
    /\ LocallyReadyBy(k, now)
    /\ tasks[k].dependency_wait_start # None

\* C4 as claimed: a scheduling pass at or after external_dependency_timeout
\* returns the task that waits for another agent's task.  Stated for the
\* passes that return nothing (the agent goes to sleep): after such a pass
\* no task that waits for an external dependency has waited that long.
C4_Original ==
    pc = "sleep" =>
        \A k \in TaskIndexes :
            WaitsForExternal(k) =>
                now - tasks[k].dependency_wait_start < external_dependency_timeout

-----------------------------------------------------------------------------
(* C5 *)

\* C5 as claimed: a task that declared a dependency on another agent's
\* task and was locally ready when it was scheduled is scheduled no earlier
\* than external_dependency_timeout after it became locally ready.
C5_Original ==
    \A k \in TaskIndexes :
        /\ ExternalPositions(k) # {}
        /\ WasReturned(k)
        /\ LocallyReadyBy(k, tasks[k].started_at)
        => tasks[k].started_at - LocallyReadyAt(k) >= external_dependency_timeout

-----------------------------------------------------------------------------
(* C6 *)

\* C6 as claimed: a dependency the plan declares on another agent's task
\* is external to the scheduler, that is, the dependency the PENDING task
\* holds at that position does not carry this agent's prefix.
C6_Original ==
    \A k \in TaskIndexes :
        tasks[k].status = PENDING /\ ~WasReturned(k) =>
            \A i \in ExternalPositions(k) :
                ~StartsWithAgentId(tasks[k].dependencies[i])

-----------------------------------------------------------------------------
(* C7 *)

\* C7 as claimed: a task PENDING for longer than max_dependency_wait_time
\* is returned by the next scheduling pass.  Stated for the passes that
\* return nothing: after such a pass no PENDING task is older than that.
C7_Original ==
    pc = "sleep" =>
        \A k \in TaskIndexes :
            tasks[k].status = PENDING =>
                now - tasks[k].created_at <= max_dependency_wait_time

\* task j was PENDING when task k was started
PendingWhenStarted(j, k) ==
    \/ tasks[j].started_at = None
    \/ tasks[j].started_at > tasks[k].started_at

\* C7 (amended): the threshold is measured from dependency_wait_start, the
\* timer a scheduling pass starts when it finds nothing executable (or
\* when the task starts waiting for external dependencies), and it is
\* looked at only by a pass whose scan found nothing executable.  After a
\* pass that returned nothing, every PENDING task has a running timer
\* below max_dependency_wait_time; a task returned by the deadlock break
\* has no dependencies left, had waited the threshold, and no PENDING task
\* before it in the list had.
C7_DeadlockBreakOnIdlePass ==
    /\ pc = "sleep" =>
          \A k \in TaskIndexes :
              tasks[k].status = PENDING =>
                  /\ tasks[k].dependency_wait_start # None
                  /\ now - tasks[k].dependency_wait_start
                        < max_dependency_wait_time
    /\ \A k \in TaskIndexes :
          returned_via[k] = "deadlock" =>
              /\ tasks[k].dependencies = <<>>
              /\ tasks[k].started_at - tasks[k].dependency_wait_start
                    >= max_dependency_wait_time
              /\ \A j \in 1..(k - 1) :
                    PendingWhenStarted(j, k)
                    /\ tasks[j].dependency_wait_start # None
                    => tasks[k].started_at - tasks[j].dependency_wait_start
                          < max_dependency_wait_time

\* a task with an unmet dependency was forced by the deadlock break
C7_Witness ==
    \E k \in TaskIndexes :
        /\ returned_via[k] = "deadlock"
        /\ Len(plan[k].dependencies) > 0
        /\ tasks[k].dependencies = <<>>

-----------------------------------------------------------------------------
(* C8 *)

\* _run left its loop with every task terminal and its last act was the
\* publication of AGENT_COMPLETED
RunCompleted ==
    /\ pc = "done"
    /\ AllTerminal(tasks)
    /\ Len(log) > 0
    /\ log[Len(log)].type = AGENT_COMPLETED
    /\ log[Len(log)].agent_id = agent_id

\* C8: under FairSpec, once planning has succeeded (the agent is in its run
\* loop), the agent eventually has every task terminal, has left the loop
\* and has published AGENT_COMPLETED, unless stop() cancelled it.
C8_RunLoopTerminates == (pc = "loop") ~> (RunCompleted \/ pc = "cancelled")

\* a completed run in which a task failed and a task whose dependency
\* could never be met (failed, missing or cyclic) was forced
C8_Witness ==
    /\ RunCompleted
    /\ \E j \in TaskIndexes, k \in TaskIndexes :
          /\ tasks[j].status = FAILED
          /\ returned_via[k] = "deadlock"
          /\ Len(plan[k].dependencies) > 0

\* the clock bound is never what stops a run
ClockBoundNotReached == now + 61 <= MaxTime

-----------------------------------------------------------------------------
(* C9 *)

\* C9 as claimed: a task whose execution failed ends FAILED with the error
\* text recorded on it.
C9_Original ==
    \A k \in TaskIndexes :
        tasks[k].status = FAILED => tasks[k].error # "None"

-----------------------------------------------------------------------------
(* C10 *)

\* the last n entries of a sequence
LastN(sq, n) == SubSeq(sq, Len(sq) - n + 1, Len(sq))

-----------------------------------------------------------------------------
(* C11 *)

\* entries i and j of calls belong to the same invocation
SameInvocation(i, j) ==
    /\ calls[i].timestamp = calls[j].timestamp
    /\ calls[i].callback = calls[j].callback

\* C11: events are dequeued in publish order, each once; the callback
\* invocations follow that order, every invocation has returned or raised
\* before the next one starts, and no callback is invoked twice for an
\* event.
C11_DeliveryInPublishOrder ==
    /\ Len(proc.taken) <= Len(log)
    /\ \A i \in 1..Len(proc.taken) : proc.taken[i] = log[i].timestamp
    /\ \A i \in 1..Len(calls), j \in 1..Len(calls) :
          i < j => calls[i].timestamp <= calls[j].timestamp
    /\ \A i \in 1..Len(calls) :
          IF calls[i].kind = "start"
          THEN /\ i < Len(calls) =>
                    calls[i + 1].kind # "start" /\ SameInvocation(i, i + 1)
               /\ \A j \in 1..Len(calls) :
                    j # i /\ calls[j].kind = "start" => ~SameInvocation(i, j)
          ELSE i > 1 /\ calls[i - 1].kind = "start" /\ SameInvocation(i - 1, i)

\* two events were delivered to callbacks, the second one published by a
\* callback of the first, and a callback raised
C11_Witness ==
    /\ \E i \in 1..Len(calls), j \in 1..Len(calls) :
          /\ calls[i].timestamp < calls[j].timestamp
          /\ calls[i].kind = "fail"
          /\ calls[j].kind = "end"
    /\ Len(proc.taken) = MaxDelivered

-----------------------------------------------------------------------------
(* C12 *)

\* event number i (in publish order) has been dequeued and its delivery is
\* over
DeliveryOver(i) ==
    /\ i <= Len(proc.taken)
    /\ proc.event.timestamp # log[i].timestamp

\* callback cb was invoked for event number i
Invoked(i, cb) ==
    \E j \in 1..Len(calls) :
        /\ calls[j].kind = "start"
        /\ calls[j].timestamp = log[i].timestamp
        /\ calls[j].callback = cb

\* every subscriber of the type of event number i was invoked for it
DeliveredToAll(i) ==
    \A cb \in SubscribersOf(subscribers, log[i].type) : Invoked(i, cb)

\* some callback raised
SomeCallbackRaised == \E j \in 1..Len(calls) : calls[j].kind = "fail"

\* the loop left only by its `break`: on a sentinel, with nothing queued
ExitedOnSentinel ==
    proc.pc = "exited" =>
        /\ Len(proc.taken) > 0
        /\ log[Len(proc.taken)].type = SYSTEM_SHUTDOWN

\* C12: a callback that raises stops nothing.  Every event whose delivery
\* is over was handed to every subscriber of its type, whether callbacks
\* raised or not; no published event is lost; the loop is left only on a
\* sentinel; and once a callback has raised, every event published while
\* the loop runs is still dequeued.
C12_RaisingCallbackIsContained ==
    /\ [](\A i \in 1..Len(log) : DeliveryOver(i) => DeliveredToAll(i))
    /\ [](Len(proc.taken) + Len(queue) = Len(log))
    /\ []ExitedOnSentinel
    /\ \A n \in 1..(MaxDelivered + 1) :
          (SomeCallbackRaised /\ Len(log) >= n)
              ~> (Len(proc.taken) >= n \/ proc.pc = "exited")

\* a callback raised, another subscriber of the same event was invoked
\* after it, and a later event was delivered
C12_Witness ==
    \E i \in 1..Len(calls), j \in 1..Len(calls), k \in 1..Len(calls) :
        /\ i < j /\ j < k
        /\ calls[i].kind = "fail"
        /\ calls[j].kind = "start"
        /\ calls[j].timestamp = calls[i].timestamp
        /\ calls[k].kind = "start"
        /\ calls[k].timestamp > calls[i].timestamp

-----------------------------------------------------------------------------
(* C13 *)

\* C13: process_events leaves its loop only in the step that ends the
\* delivery of a sentinel and finds the queue empty; at that moment every
\* event published so far has been dequeued and handed to every subscriber
\* of its type.  A sentinel delivered while events are queued does not end
\* the loop.
C13_ExitOnlyWhenDrained ==
    [][ proc.pc # "exited" /\ proc'.pc = "exited" =>
          /\ proc.event.type = SYSTEM_SHUTDOWN
          /\ queue = <<>>
          /\ Len(proc.taken) = Len(log)
          /\ \A i \in 1..Len(log) : DeliveredToAll(i) ]_vars

\* a sentinel was delivered while an event published by its subscriber was
\* queued; the loop delivered that event and left on a later sentinel
C13_Witness ==
    /\ proc.pc = "exited"
    /\ Len(proc.taken) = 3
    /\ log[1].type = SYSTEM_SHUTDOWN
    /\ log[2].type = AGENT_MESSAGE
    /\ \E j \in 1..Len(calls), k \in 1..Len(calls) :
          /\ j < k
          /\ calls[j] = Call(log[1], "cb1", "end")
          /\ calls[k].timestamp = log[2].timestamp
          /\ calls[k].kind = "end"

-----------------------------------------------------------------------------
(* C14 *)

\* number of events of a type and limit kind published so far
CountLimitEvents(type, kind) ==
    Cardinality({ i \in 1..Len(log) :
                    log[i].type = type /\ log[i].payload.limit_type = kind })

\* some _check_limits ran while the cost was in the warning band
CostCheckedInBand ==
    \E i \in 1..Len(tracker.checks) :
        /\ AtWarning(tracker.checks[i].cost, max_cost_usd)
        /\ tracker.checks[i].cost < max_cost_usd

\* some _check_limits ran while the elapsed time was in the warning band
TimeCheckedInBand ==
    \E i \in 1..Len(tracker.checks) :
        /\ AtWarning(tracker.checks[i].elapsed, max_runtime_min * 60)
        /\ tracker.checks[i].elapsed < max_runtime_min * 60

\* C14 as claimed: once usage has crossed 80% of the limit and the checks
\* created so far have run, exactly one warning of that kind exists.
C14_Original ==
    tracker.pending = 0 =>
        /\ AtWarning(tracker.current_cost_usd, max_cost_usd) =>
              CountLimitEvents(RESOURCE_LIMIT_WARNING, "cost") = 1
        /\ (\E i \in 1..Len(tracker.checks) :
               AtWarning(tracker.checks[i].elapsed, max_runtime_min * 60)) =>
              CountLimitEvents(RESOURCE_LIMIT_WARNING, "time") = 1

\* C14 (amended): for each kind at most one warning is published in a run,
\* and exactly one if and only if some limit check ran while the usage was
\* at or above 80% of the limit and below the limit; usage first checked at
\* or above the limit yields no warning.
C14_AtMostOneWarning ==
    /\ CountLimitEvents(RESOURCE_LIMIT_WARNING, "cost")
          = (IF CostCheckedInBand THEN 1 ELSE 0)
    /\ CountLimitEvents(RESOURCE_LIMIT_WARNING, "time")
          = (IF TimeCheckedInBand THEN 1 ELSE 0)

\* a warning of each kind was published and checks ran in the band again
\* afterward
C14_Witness ==
    /\ CountLimitEvents(RESOURCE_LIMIT_WARNING, "cost") = 1
    /\ CountLimitEvents(RESOURCE_LIMIT_WARNING, "time") = 1
    /\ \E i \in 1..Len(tracker.checks), j \in 1..Len(tracker.checks) :
          /\ i < j
          /\ AtWarning(tracker.checks[i].elapsed, max_runtime_min * 60)
          /\ tracker.checks[j].elapsed < max_runtime_min * 60
          /\ AtWarning(tracker.checks[i].cost, max_cost_usd)
          /\ tracker.checks[j].cost >= max_cost_usd

-----------------------------------------------------------------------------
(* C15 *)

\* number of limit checks that ran with the cost at or above the limit
ChecksOverCost ==
    Cardinality({ i \in 1..Len(tracker.checks) :
                    tracker.checks[i].cost >= max_cost_usd })

\* number of limit checks that ran with the time at or above the limit
ChecksOverTime ==
    Cardinality({ i \in 1..Len(tracker.checks) :
                    tracker.checks[i].elapsed >= max_runtime_min * 60 })

\* number of add_token_usage calls that left the cost at or above the limit
AddsOverCost ==
    Cardinality({ i \in 1..Len(tracker.adds) : tracker.adds[i] >= max_cost_usd })

\* C15: every limit check that runs at or above a limit publishes one
\* RESOURCE_LIMIT_EXCEEDED event of that kind, again each time; an
\* add_token_usage call publishes nothing itself and only leaves a check to
\* run; every call that left the cost at or above the limit has its
\* exceeded event or a check still to run, and every check runs.
C15_ExceededOnEveryCheck ==
    /\ [](CountLimitEvents(RESOURCE_LIMIT_EXCEEDED, "cost") = ChecksOverCost)
    /\ [](CountLimitEvents(RESOURCE_LIMIT_EXCEEDED, "time") = ChecksOverTime)
    /\ [](AddsOverCost <= ChecksOverCost + tracker.pending)
    /\ [][ tracker'.adds # tracker.adds =>
             /\ log' = log
             /\ tracker'.pending = tracker.pending + 1 ]_vars
    /\ (tracker.pending > 0) ~> (tracker.pending = 0)

\* two calls left the cost over the limit and each was followed by its
\* exceeded event
C15_Witness ==
    /\ AddsOverCost >= 2
    /\ tracker.pending = 0
    /\ CountLimitEvents(RESOURCE_LIMIT_EXCEEDED, "cost") >= 2
    /\ CountLimitEvents(RESOURCE_LIMIT_EXCEEDED, "time") >= 1

-----------------------------------------------------------------------------
(* C16 *)

\* number of published events of a type
Published(type) == Cardinality({ i \in 1..Len(log) : log[i].type = type })

\* number of invocations of callback cb that are in a given state
CallsOf(cb, kind) ==
    Cardinality({ j \in 1..Len(calls) :
                    calls[j].callback = cb /\ calls[j].kind = kind })

\* no agent is running and no run loop is active
AllAgentsStopped ==
    \A k \in 1..Len(agents) : ~agents[k].is_running /\ agents[k].task # "pending"

\* number of published sentinels whose reason is the given one
Sentinels(reason) ==
    Cardinality({ i \in 1..Len(log) :
                    /\ log[i].type = SYSTEM_SHUTDOWN
                    /\ log[i].payload.reason = reason })

-----------------------------------------------------------------------------
(* C17 *)

\* the stages of a complete shutdown(), in their order
AllStages == << "pause1", "drain1", "stop", "pause2", "drain2", "publish" >>

\* shutdown() of caller c is past its loop over the agents
PastStop(c) == sd[c].pc \in {"pause2", "drain2", "done"}

-----------------------------------------------------------------------------
(* C18 *)

\* sq is an initial part of AllStages
StagesInOrder(sq) ==
    /\ Len(sq) <= Len(AllStages)
    /\ sq = SubSeq(AllStages, 1, Len(sq))

\* the events are dequeued in the order of the log
DeliveryFollowsLog ==
    /\ Len(proc.taken) <= Len(log)
    /\ \A i \in 1..Len(proc.taken) : proc.taken[i] = log[i].timestamp

\* C18: the stages of a shutdown() occur in their order (pause, first
\* drain, stop of the agents, second pause, second drain, publish); a
\* sentinel is published only when every agent is stopped and no run loop
\* is active; no event of an agent is published after a sentinel, and the
\* events are delivered in the order they were published, so every event
\* of an agent is delivered before the sentinel.
C18_SentinelAfterAgentsStopped ==
    /\ \A c \in SdCallers : StagesInOrder(sd[c].stages)
    /\ \A j \in 1..Len(log) :
          log[j].type = SYSTEM_SHUTDOWN =>
              /\ AllAgentsStopped
              /\ \A i \in (j + 1)..Len(log) : log[i].agent_id = ""
    /\ DeliveryFollowsLog

\* an agent published an event and was then cancelled by a shutdown();
\* the event and, after it, the sentinel of that shutdown were delivered
C18_Witness ==
    \E i \in 1..Len(log) : \E j \in (i + 1)..Len(log) :
        /\ log[i].agent_id # ""
        /\ log[j].type = SYSTEM_SHUTDOWN
        /\ Len(proc.taken) >= j
        /\ \E k \in 1..Len(agents) :
              agents[k].agent_id = log[i].agent_id /\ agents[k].task = "cancelled"

-----------------------------------------------------------------------------
(* C19 *)

\* C19 (as stated): however many times shutdown() is invoked in a run, by
\* the exceeded handler and by run(), the subscriber of SYSTEM_SHUTDOWN is
\* handed one terminal shutdown event, not more.
C19_Original == CallsOf("_handle_shutdown", "start") <= 1

-----------------------------------------------------------------------------
(* C20 *)

\* CONFIG_VALIDATED with status invalid was published
InvalidPublished ==
    \E i \in 1..Len(log) :
        log[i].type = CONFIG_VALIDATED /\ log[i].payload.status = "invalid"

\* C20: when the validator reports the configuration invalid, run() has
\* published CONFIG_VALIDATED with status invalid, is in (or past) its
\* shutdown("Configuration validation failed"), and returns False once the
\* sentinel of that shutdown is published; no agent is ever created or
\* started and no event of an agent or of a limit check is published; and
\* run() does return.
C20_InvalidConfigStartsNoAgent ==
    /\ [](orch.valid = "invalid" =>
            /\ InvalidPublished
            /\ agents = <<>>
            /\ \A i \in 1..Len(log) : log[i].agent_id = ""
            /\ tracker.adds = <<>>
            /\ orch.pc \in {"shutdown_invalid", "returned"}
            /\ sd["run"].pc # "idle"
            /\ sd["run"].reason = << "Configuration validation failed" >>
            /\ orch.pc = "returned" <=> sd["run"].pc = "done"
            /\ orch.pc = "returned" =>
                  /\ orch.result = "False"
                  /\ Sentinels(<< "Configuration validation failed" >>) = 1)
    /\ [](orch.valid = "valid" => ~InvalidPublished)
    /\ (orch.valid = "invalid") ~> (orch.pc = "returned")

\* run() has returned False for an invalid configuration, after the
\* validation-failure event and the sentinel were delivered
C20_Witness ==
    /\ orch.valid = "invalid"
    /\ orch.pc = "returned"
    /\ orch.result = "False"
    /\ InvalidPublished
    /\ proc.pc = "exited"
    /\ Len(proc.taken) = Len(log)

-----------------------------------------------------------------------------
(* C21 *)

\* the run loop of some agent ended with an error
SomeRunLoopRaised == \E k \in 1..Len(agents) : agents[k].task = "raised"

\* C21: once the run loop of an agent has raised, run() gets to return
\* False, after a shutdown("Agent execution failed") that left no agent
\* running and published its sentinel; run() never returns True in such a
\* run; and an agent that is stopped stays stopped: its run loop is not
\* active again and it publishes no further event.
C21_AgentErrorAbortsRun ==
    /\ SomeRunLoopRaised
          ~> (/\ orch.pc = "returned"
              /\ orch.result = "False"
              /\ sd["run"].pc = "done"
              /\ sd["run"].reason = << "Agent execution failed" >>
              /\ Sentinels(<< "Agent execution failed" >>) = 1
              /\ AllAgentsStopped)
    /\ [](SomeRunLoopRaised => orch.result # "True")
    /\ [][ \A k \in 1..Len(agents) :
             agents[k].task # "pending" =>
                 /\ agents'[k].task = agents[k].task
                 /\ (~agents[k].is_running => ~agents'[k].is_running)
                 /\ \A i \in (Len(log) + 1)..Len(log') :
                       log'[i].agent_id # agents[k].agent_id ]_vars

\* the run loop of the first agent raised while the second was running;
\* the shutdown of run() cancelled the second and run() returned False
C21_Witness ==
    /\ Len(agents) = 2
    /\ agents[1].task = "raised"
    /\ agents[2].task = "cancelled"
    /\ sd["handler"].count = 0
    /\ orch.pc = "returned"
    /\ orch.result = "False"

-----------------------------------------------------------------------------
(* C22 *)

\* the exceeded handler has run shutdown() in this run
StoppedByBreach == sd["handler"].count > 0

\* C22 (as stated): when run() has returned in a run that the exceeded
\* handler shut down, or whose configuration the validator rejected, it
\* has returned False and the exit code of the process is not 0.
C22_Original ==
    (orch.pc = "returned" /\ (StoppedByBreach \/ orch.valid = "invalid")) =>
        /\ orch.result = "False"
        /\ main(orch.result) # 0

-----------------------------------------------------------------------------
(* C23 *)

\* positions in the log of the AGENT_COMPLETED events of the agent
CompletedEvents ==
    { i \in 1..Len(log) :
        log[i].type = AGENT_COMPLETED /\ log[i].agent_id = agent_id }

\* number of tasks of the agent in status st
NumTasksIn(st) == Cardinality({ k \in 1..Len(tasks) : tasks[k].status = st })

\* C23: the agent publishes AGENT_COMPLETED at most once; when it is
\* published, and ever after, every task is COMPLETED, FAILED or SKIPPED,
\* and the event carries the number of COMPLETED tasks, the number of
\* FAILED tasks and the number of tasks, the first two adding up to the
\* third.
C23_CompletedOnceWithTrueCounts ==
    /\ Cardinality(CompletedEvents) <= 1
    /\ \A i \in CompletedEvents :
          /\ \A k \in 1..Len(tasks) :
                tasks[k].status \in {COMPLETED, FAILED, SKIPPED}
          /\ log[i].payload.counts =
                << NumTasksIn(COMPLETED), NumTasksIn(FAILED), Len(tasks) >>
          /\ log[i].payload.counts[1] + log[i].payload.counts[2]
                = log[i].payload.counts[3]

\* AGENT_COMPLETED was published for a run of two tasks, one COMPLETED and
\* one FAILED
C23_Witness ==
    \E i \in CompletedEvents :
        /\ log[i].payload.counts = << 1, 1, 2 >>
        /\ pc = "done"

-----------------------------------------------------------------------------
(* C24 *)

\* positions in the log of the events of a type about task k
TaskEvents(k, type) ==
    { i \in 1..Len(log) :
        /\ log[i].type = type
        /\ log[i].agent_id = agent_id
        /\ log[i].payload.task_id = tasks[k].id }

\* C24 (as stated): an AGENT_TASK_COMPLETED event reports the status
\* COMPLETED and an AGENT_TASK_FAILED event the status FAILED; a task that
\* was executed to its end has one completion-or-failure event, and a task
\* that is not FAILED has no failure event.
C24_Original ==
    /\ \A i \in 1..Len(log) :
          /\ log[i].type = AGENT_TASK_COMPLETED => log[i].payload.status = COMPLETED
          /\ log[i].type = AGENT_TASK_FAILED => log[i].payload.status = FAILED
    /\ \A k \in 1..Len(tasks) :
          /\ tasks[k].status \in {COMPLETED, FAILED} =>
                Cardinality(TaskEvents(k, AGENT_TASK_COMPLETED)
                            \cup TaskEvents(k, AGENT_TASK_FAILED)) = 1
          /\ tasks[k].status # FAILED => TaskEvents(k, AGENT_TASK_FAILED) = {}

-----------------------------------------------------------------------------
(* C25 *)

\* the number of times agent cb awaited _process_message on event number i
ProcessCount(i, cb) ==
    Cardinality({ j \in 1..Len(calls) :
                    /\ calls[j].kind = "process"
                    /\ calls[j].timestamp = log[i].timestamp
                    /\ calls[j].callback = cb })

\* C25: send_message publishes exactly one event, of type AGENT_MESSAGE,
\* whose "to" is the addressee named by the caller whatever "to" the payload
\* held; an agent processes a message only if its id is that "to", at most
\* once, and has processed it when the delivery of the message is over;
\* and the delivery of every message sent does get over.
C25_DirectedMessageReachesAddressee ==
    /\ [][log' # log =>
            /\ Len(log') = Len(log) + 1
            /\ SubSeq(log', 1, Len(log)) = log
            /\ log'[Len(log')].type = AGENT_MESSAGE
            /\ log'[Len(log')].payload.to \in Addressees \cup {"unknown"}]_vars
    /\ [](\A i \in 1..Len(log) : \A cb \in ManifestIds :
            /\ ProcessCount(i, cb) <= 1
            /\ ProcessCount(i, cb) = 1 => log[i].payload.to = cb
            /\ DeliveryOver(i) /\ log[i].payload.to = cb
                  => ProcessCount(i, cb) = 1)
    /\ \A n \in 1..(2 * MaxMessages) : (Len(log) >= n) ~> DeliveryOver(n)

\* a message to one agent of the manifest was delivered to both agents and
\* processed by the addressee alone, and a message to nobody was delivered
C25_Witness ==
    \E i \in 1..Len(log), j \in 1..Len(log) :
        /\ log[i].payload.to = "builder-1"
        /\ DeliveryOver(i)
        /\ \A cb \in ManifestIds : Invoked(i, cb)
        /\ ProcessCount(i, "builder-1") = 1
        /\ ProcessCount(i, "operator-1") = 0
        /\ log[j].payload.to = "nobody"
        /\ DeliveryOver(j)

-----------------------------------------------------------------------------
(* C26 *)

\* sum of the counts of the groups, an absent count being 1
RECURSIVE SumCounts(_)
SumCounts(entries) ==
    IF entries = << >> THEN 0
    ELSE (IF Head(entries).count = None THEN 1 ELSE Head(entries).count)
         + SumCounts(Tail(entries))

\* the group that position p of the flat list comes from: the first one
\* whose counts, added to those of the groups before it, reach p
GroupOf(entries, p) ==
    CHOOSE g \in 1..Len(entries) :
        /\ SumCounts(SubSeq(entries, 1, g)) >= p
        /\ SumCounts(SubSeq(entries, 1, g - 1)) < p

\* the text of the numbers the model reaches
DecimalText(n) ==
    << "1", "2", "3", "4", "5", "6", "7", "8", "9", "10", "11", "12" >>[n]

\* C26: the manifest of a configuration has one entry per unit of count, in
\* the order of the groups; the id of an entry is its type, "-", and the
\* number of entries of that type up to and including it; the ids are
\* pairwise distinct; and the manifest the factory built is the one the
\* configuration determines.
C26_ManifestIsFlatNumberedDistinct ==
    LET m == build_manifest(config)
    IN  /\ Len(m) = SumCounts(config.agents)
        /\ \A p \in 1..Len(m) :
              /\ m[p].type = config.agents[GroupOf(config.agents, p)].type
              /\ m[p].agent_id =
                    m[p].type \o "-" \o
                    DecimalText(Cardinality({ q \in 1..p :
                                               m[q].type = m[p].type }))
        /\ \A p \in 1..Len(m), q \in 1..Len(m) :
              m[p].agent_id = m[q].agent_id => p = q
        /\ created # << >> => manifest = m

\* a manifest was built from two groups of the same type, one of them
\* without a count
C26_Witness ==
    /\ Len(config.agents) = 2
    /\ config.agents[1] = [type |-> "builder", count |-> 2, goal |-> "goal A"]
    /\ config.agents[2] = [type |-> "builder", count |-> None, goal |-> "goal A"]
    /\ Len(manifest) = 3
    /\ manifest[3].agent_id = "builder-3"
    /\ Len(created) = 3

-----------------------------------------------------------------------------
(* C27 *)

\* C27: the agents create_agents returned are as many as the entries of
\* the manifest and the i-th agent has the id of the i-th entry; each holds
\* a dict object of its own, which is not the object the factory was given,
\* equal to the configuration but for a run_id that is the id of the run;
\* all hold the one manifest object; and once built the manifest never
\* changes, whatever the agents do with it.
C27_OneAgentPerEntrySharedManifest ==
    /\ [](/\ Len(created) = Len(manifest)
          /\ \A i \in 1..Len(created) :
                /\ created[i].agent_id = manifest[i].agent_id
                /\ created[i].config.agents = config.agents
                /\ config_run_id(created[i].config) = run_id
                /\ created[i].config_ref # ConfigRef
                /\ created[i].manifest_ref = ManifestRef
                /\ \A j \in 1..Len(created) :
                      created[i].config_ref = created[j].config_ref => i = j)
    /\ [][manifest # << >> => manifest' = manifest]_vars

\* four agents were created from two groups and two of them have sent
\* their announcements to the agents of the manifest
C27_Witness ==
    /\ Len(config.agents) = 2
    /\ Len(created) = 4
    /\ Announced = 2
    /\ Len(log) = 6

-----------------------------------------------------------------------------
(* C28 *)

-----------------------------------------------------------------------------
(* C29 *)

\* the agent was stopped while _execute_task was suspended in a task
StoppedInTask == pc = "cancelled" /\ current # 0

\* C29: the step in which stop() ends the run loop changes no task and
\* publishes nothing; a task the agent was stopped in stays IN_PROGRESS;
\* and from then on the run loop never resumes, no task changes (none is
\* started, completed or failed) and the agent publishes no event.
C29_StoppedTaskIsAbandoned ==
    /\ [](StoppedInTask => tasks[current].status = IN_PROGRESS)
    /\ [][pc' = "cancelled" =>
            /\ tasks' = tasks
            /\ current' = current
            /\ log' = log
            /\ history' = history
            /\ queue' = queue]_vars
    /\ [][pc = "cancelled" => pc' = "cancelled" /\ ~is_running']_vars

\* the agent was stopped in the first task of its plan, another task
\* waiting to be started
C29_Witness ==
    /\ StoppedInTask
    /\ tasks[current].status = IN_PROGRESS
    /\ \E k \in 1..Len(tasks) : tasks[k].status = PENDING
    /\ ~is_running

-----------------------------------------------------------------------------
(* C30 *)

\* the smaller of two numbers
Min(a, b) == IF a < b THEN a ELSE b

\* what the claim says get_history(limit) returns on history h
LastLimit(h, limit) ==
    IF limit = None THEN h ELSE LastN(h, Min(limit, Len(h)))

\* C30 as stated: for every limit, get_history returns the last
\* min(limit, len(history)) events of the history in their order, none for
\* limit 0, and the whole history for None; and a call leaves the history
\* as it was.
C30_Original ==
    /\ \A limit \in Limits : get_history(history, limit) = LastLimit(history, limit)
    /\ ret # << >> /\ ret.limit = 0 => ret.events = << >>

-----------------------------------------------------------------------------
(* C33 *)

\* event number i is a reply of _process_message
IsReply(i) == log[i].payload.action \in ReplyActions

\* C33 as stated: every reply an agent sends answers a message that was
\* addressed to that agent, and is addressed to the agent that sent that
\* message (the reply's "to" is the message's "from").
C33_Original ==
    \A i \in 1..Len(log) :
        IsReply(i) =>
            \E j \in 1..(i - 1) :
                /\ log[j].payload.to = log[i].payload.from
                /\ ProcessCount(j, log[i].payload.from) = 1
                /\ log[i].payload.to = log[j].payload.from

-----------------------------------------------------------------------------
(* C34 *)

-----------------------------------------------------------------------------
(* C35 *)

\* the step records a call of the given kind (subscribe or unsubscribe)
Records(kind) ==
    /\ Len(calls') = Len(calls) + 1
    /\ calls'[Len(calls')].kind = kind

\* the number of invocations of callback cb for event number i
StartsOf(i, cb) ==
    Cardinality({ j \in 1..Len(calls) :
                    /\ calls[j].kind = "start"
                    /\ calls[j].timestamp = log[i].timestamp
                    /\ calls[j].callback = cb })

\* C35: subscribing a registered callback changes nothing, and a callback
\* is invoked once per event however often it was subscribed: it is
\* invoked again for the same event only if it was unsubscribed in
\* between; a callback is invoked only while it is registered, so after an
\* unsubscribe it is not invoked for any event, published before or after,
\* unless it was subscribed again; and unsubscribing a callback that is not
\* registered changes nothing.
C35_SubscribeIdempotentUnsubscribeEffective ==
    /\ [](\A p \in 1..Len(calls) : \A q \in (p + 1)..Len(calls) :
            /\ calls[p].kind = "start"
            /\ calls[q].kind = "start"
            /\ calls[q].callback = calls[p].callback
            /\ calls[q].timestamp = calls[p].timestamp
            /\ calls[q].type = calls[p].type
            => \E r \in (p + 1)..(q - 1) :
                  /\ calls[r].kind = "unsubscribe"
                  /\ calls[r].callback = calls[p].callback)
    /\ [](\A p \in 1..Len(calls) : \A q \in (p + 1)..Len(calls) :
            /\ calls[p].kind = "unsubscribe"
            /\ calls[q].kind = "start"
            /\ calls[q].callback = calls[p].callback
            /\ calls[q].type = calls[p].type
            => \E r \in (p + 1)..(q - 1) :
                  /\ calls[r].kind = "subscribe"
                  /\ calls[r].callback = calls[p].callback)
    /\ [][Records("start") =>
            calls'[Len(calls')].callback
                \in SubscribersOf(subscribers, calls'[Len(calls')].type)]_vars
    /\ [][/\ Records("subscribe")
          /\ calls'[Len(calls')].callback
                \in SubscribersOf(subscribers, AGENT_MESSAGE)
          => subscribers' = subscribers /\ proc' = proc]_vars
    /\ [][/\ Records("unsubscribe")
          /\ calls'[Len(calls')].callback
                \notin SubscribersOf(subscribers, AGENT_MESSAGE)
          => subscribers' = subscribers /\ proc' = proc]_vars

\* a callback was subscribed, a message was published, the callback was
\* unsubscribed before the message was dequeued, and the message was
\* delivered without it
C35_Witness ==
    /\ Len(calls) >= 2
    /\ calls[1].kind = "subscribe"
    /\ calls[2].kind = "unsubscribe"
    /\ calls[2].callback = calls[1].callback
    /\ calls[1].timestamp = 0
    /\ calls[2].timestamp = 1
    /\ log[1].type = AGENT_MESSAGE
    /\ DeliveryOver(1)
    /\ StartsOf(1, calls[1].callback) = 0

-----------------------------------------------------------------------------
(* C36 *)

\* C36 as stated: a subscribe or unsubscribe made while an event of the
\* type is being delivered does not end the delivery loop.
C36_Original == proc.pc # "crashed"

-----------------------------------------------------------------------------
(* C37 *)

\* C37 as stated: the goal of every agent the factory created is the goal
\* the manifest records for the agent's id.
C37_Original ==
    \A i \in 1..Len(created) : \A p \in 1..Len(manifest) :
        manifest[p].agent_id = created[i].agent_id
            => created[i].goal = manifest[p].goal

-----------------------------------------------------------------------------
(* C38 *)

\* a run loop task of the agent is active
RunLoopActive == \E k \in 1..Len(life.loops) : Active(life.loops[k])

\* C38 as stated: is_running is true exactly while the run loop task of
\* the agent is active, at most one run loop is active, and is_running is
\* false whenever a call of start() or stop() has returned or raised.
C38_Original ==
    /\ life.is_running <=> RunLoopActive
    /\ Cardinality({k \in 1..Len(life.loops) : Active(life.loops[k])}) <= 1
    /\ \A r \in 1..Len(life.returns) : ~life.returns[r].is_running

-----------------------------------------------------------------------------
(* C39 *)

\* what one call of _get_next_executable_task, with result r at time t,
\* may have done to task `before`, the k-th of the list: nothing at all if
\* it is not PENDING; else its wait start may have been set, if it had
\* none, to t, and, if it is the task a timeout path returns, dependencies
\* may have been removed from its list
LeftAsAllowed(before, after, k, r, t) ==
    /\ before.status # PENDING => after = before
    /\ after = [before EXCEPT
                    !.dependency_wait_start = after.dependency_wait_start,
                    !.dependencies = after.dependencies]
    /\ \/ after.dependency_wait_start = before.dependency_wait_start
       \/ before.dependency_wait_start = None
            /\ after.dependency_wait_start = t
    /\ \/ after.dependencies = before.dependencies
       \/ /\ k = r.task
          /\ \/ r.path = "external_timeout"
                  /\ after.dependencies =
                         SelectSeq(before.dependencies, StartsWithAgentId)
             \/ r.path = "deadlock" /\ after.dependencies = <<>>

\* C39: a call of _get_next_executable_task leaves the status, result and
\* error of every task alone and leaves a task that is not PENDING entirely
\* unchanged; it only sets the wait start of PENDING tasks that had none
\* and removes dependencies of the one task it returns on a timeout path;
\* and once the tasks are planned no step of the agent adds a dependency
\* to a task.
C39_SchedulerOnlyTouchesWaitAndDeps ==
    /\ [](pc = "loop" =>
            LET r == get_next_executable_task(tasks, now)
            IN  /\ Len(r.tasks) = Len(tasks)
                /\ \A k \in 1..Len(tasks) :
                       LeftAsAllowed(tasks[k], r.tasks[k], k, r, now))
    /\ [][\A k \in 1..Len(tasks) :
             /\ Len(tasks') = Len(tasks)
             /\ tasks'[k].dependencies \in
                    {tasks[k].dependencies,
                     SelectSeq(tasks[k].dependencies, StartsWithAgentId),
                     <<>>}]_vars

\* a task whose wait start an earlier call had set was returned by the
\* deadlock break and lost its dependencies in that call, while another
\* task had ended
C39_Witness ==
    /\ pc = "exec"
    /\ current # 0
    /\ returned_via[current] = "deadlock"
    /\ tasks[current].dependency_wait_start # None
    /\ tasks[current].dependencies = <<>>
    /\ DeclaredDeps(current) # <<>>
    /\ \E j \in 1..Len(tasks) : tasks[j].status \in {COMPLETED, FAILED}

-----------------------------------------------------------------------------
(* C32 *)

\* every published event other than the one whose handler runs shutdown()
\* invocation c has been fully delivered
OthersDelivered(c) ==
    /\ queue = <<>>
    /\ proc.pc = "deliver" =>
          /\ c = "handler"
          /\ proc.active = "_handle_resource_exceeded"
          /\ proc.todo = {}

\* C32 as stated: a drain wait of shutdown() that ends while every other
\* published event has been fully delivered ends because the queue
\* drained and not by its timeout, also in a shutdown() that
\* _handle_resource_exceeded awaits inside the delivery loop.
C32_Original ==
    [][\A c \in SdCallers :
          /\ sd[c].pc \in {"drain1", "drain2"}
          /\ sd'[c].pc # sd[c].pc
          /\ OthersDelivered(c)
          => sd'[c].timeouts = sd[c].timeouts]_vars

-----------------------------------------------------------------------------
(* C31 *)

\* C31 as stated: on the success path, once run() awaits the event
\* processor after its shutdown(), process_events eventually exits and
\* run() returns, whatever else is published around the sentinels.
C31_Original == (orch.pc = "await_processor") ~> (orch.pc = "returned")
====
